---- MODULE Spec2Model ----
(***************************************************************************)
(* Model of the vlr-ingest edge function (supabase/functions/vlr-ingest):   *)
(* the entity reconciliation helpers, the four feed adapters, match-detail  *)
(* ingestion, fetchJson and the run ledger, over the tables declared by the *)
(* SQL migrations.                                                          *)
(*                                                                          *)
(* Text is a sequence of one-character strings, so that trim, lower-casing  *)
(* and the ILIKE pattern match are computed and not assumed.  A row's id is *)
(* its position in the table (rows are never deleted).  A storage write     *)
(* whose result the code inspects ({ error }) may fail: the writes of one   *)
(* invocation are numbered and the input `fails` names the ones that the    *)
(* storage rejects for a reason of its own.  Constraint violations declared *)
(* by the migrations are computed from the row.                             *)
(***************************************************************************)
EXTENDS Integers, Sequences, FiniteSets, TLC

VARIABLES db, ledger, run, hist, today, inflight

vars == <<db, ledger, run, hist, today, inflight>>

\* ------------------------------------------------------------------ bounds
MaxRuns == 2
MaxDay == 2
MaxFailAt == 2

\* ------------------------------------------------------------ null values
\* An absent identity is 0 (ids start at 1); an absent text or number is the
\* empty sequence, a present number n (in thousandths) is <<n>>.
NoId == 0
Null == <<>>
Scale == 1000

\* -------------------------------------------------------------------- text
UpperToLower ==
  [A |-> "a", B |-> "b", C |-> "c", D |-> "d", E |-> "e", F |-> "f", G |-> "g", H |-> "h", I |-> "i", J |-> "j", K |-> "k", L |-> "l", M |-> "m", N |-> "n", O |-> "o", P |-> "p", Q |-> "q", R |-> "r", S |-> "s", T |-> "t", U |-> "u", V |-> "v", W |-> "w", X |-> "x", Y |-> "y", Z |-> "z"]

LowerToUpper ==
  [a |-> "A", b |-> "B", c |-> "C", d |-> "D", e |-> "E", f |-> "F", g |-> "G", h |-> "H", i |-> "I", j |-> "J", k |-> "K", l |-> "L", m |-> "M", n |-> "N", o |-> "O", p |-> "P", q |-> "Q", r |-> "R", s |-> "S", t |-> "T", u |-> "U", v |-> "V", w |-> "W", x |-> "X", y |-> "Y", z |-> "Z"]

Lower(ch) == IF ch \in DOMAIN UpperToLower THEN UpperToLower[ch] ELSE ch

Upper(ch) == IF ch \in DOMAIN LowerToUpper THEN LowerToUpper[ch] ELSE ch

\* the sequence f as an explicit tuple
Tuple(f) == f \o <<>>

\* await: the value of a completed call.  Await({e : r \in {call}}) is e with
\* r the value the call returned; the call is made once, before e.
Await(S) == CHOOSE v \in S : TRUE

LowerStr(s) == Tuple([i \in 1..Len(s) |-> Lower(s[i])])

UpperStr(s) == Tuple([i \in 1..Len(s) |-> Upper(s[i])])

IsSpace(ch) == ch = " "

RECURSIVE TrimLeft(_)
TrimLeft(s) == IF s # <<>> /\ IsSpace(s[1]) THEN TrimLeft(Tail(s)) ELSE s

RECURSIVE TrimRight(_)
TrimRight(s) ==
  IF s # <<>> /\ IsSpace(s[Len(s)]) THEN TrimRight(SubSeq(s, 1, Len(s) - 1)) ELSE s

Trim(s) == TrimRight(TrimLeft(s))

\* column ILIKE pattern, as PostgREST hands it to Postgres: '%' (written '*'
\* or '%') matches any run of characters, '_' any one character, a backslash
\* makes the next pattern character literal, letters match ignoring case.
RECURSIVE ILike(_, _)
ILike(s, p) ==
  IF p = <<>> THEN s = <<>>
  ELSE IF p[1] \in {"%", "*"}
    THEN ILike(s, Tail(p)) \/ (s # <<>> /\ ILike(Tail(s), p))
  ELSE IF p[1] = "\\"
    THEN /\ Len(p) >= 2
         /\ s # <<>>
         /\ Lower(s[1]) = Lower(p[2])
         /\ ILike(Tail(s), Tail(Tail(p)))
  ELSE IF p[1] = "_"
    THEN s # <<>> /\ ILike(Tail(s), Tail(p))
  ELSE s # <<>> /\ Lower(s[1]) = Lower(p[1]) /\ ILike(Tail(s), Tail(p))

RECURSIVE IsPrefix(_, _)
IsPrefix(p, s) ==
  p = <<>> \/ (s # <<>> /\ p[1] = s[1] /\ IsPrefix(Tail(p), Tail(s)))

RECURSIVE Includes(_, _)
Includes(s, sub) ==
  IsPrefix(sub, s) \/ (s # <<>> /\ Includes(Tail(s), sub))

Min(S) == CHOOSE x \in S : \A y \in S : x <= y

Max(S) == CHOOSE x \in S : \A y \in S : x >= y

\* ------------------------------------------------------------- numbers
Digits == <<"0", "1", "2", "3", "4", "5", "6", "7", "8", "9">>

IsDigit(ch) == \E i \in 1..10 : Digits[i] = ch

DigitVal(ch) == (CHOOSE i \in 1..10 : Digits[i] = ch) - 1

RECURSIVE Remove(_, _)
Remove(s, chars) ==
  IF s = <<>> THEN <<>>
  ELSE IF s[1] \in chars THEN Remove(Tail(s), chars)
  ELSE <<s[1]>> \o Remove(Tail(s), chars)

\* the longest prefix of s made of digits
RECURSIVE DigitRun(_)
DigitRun(s) ==
  IF s # <<>> /\ IsDigit(s[1]) THEN <<s[1]>> \o DigitRun(Tail(s)) ELSE <<>>

RECURSIVE DigitsValue(_)
DigitsValue(ds) ==
  IF ds = <<>> THEN 0 ELSE 10 * DigitsValue(SubSeq(ds, 1, Len(ds) - 1)) + DigitVal(ds[Len(ds)])

\* the first three fraction digits, in thousandths
FractionValue(ds) ==
  LET d(i) == IF i <= Len(ds) THEN DigitVal(ds[i]) ELSE 0
  IN 100 * d(1) + 10 * d(2) + d(3)

\* parseFloat: sign, digits, optional fraction; Null stands for NaN
parseFloat(text) ==
  LET s == TrimLeft(text)
      neg == s # <<>> /\ s[1] = "-"
      body == IF s # <<>> /\ s[1] \in {"-", "+"} THEN Tail(s) ELSE s
      ip == DigitRun(body)
      rest == SubSeq(body, Len(ip) + 1, Len(body))
      fp == IF rest # <<>> /\ rest[1] = "." THEN DigitRun(Tail(rest)) ELSE <<>>
      mag == Scale * DigitsValue(ip) + FractionValue(fp)
  IN IF ip = <<>> /\ fp = <<>> THEN Null
     ELSE <<IF neg THEN 0 - mag ELSE mag>>

\* parseInt: sign and digits; Null stands for NaN
parseInt(text) ==
  LET s == TrimLeft(text)
      neg == s # <<>> /\ s[1] = "-"
      body == IF s # <<>> /\ s[1] \in {"-", "+"} THEN Tail(s) ELSE s
      ip == DigitRun(body)
  IN IF ip = <<>> THEN Null
     ELSE <<IF neg THEN 0 - DigitsValue(ip) ELSE DigitsValue(ip)>>

parseNum(v) ==
  IF v = <<>> \/ v = <<"-">> THEN Null
  ELSE parseFloat(Trim(Remove(v, {",", "%"})))

\* a JavaScript value used as a condition: absent, NaN and 0 are false
Truthy(n) == n # Null /\ n[1] # 0

\* Math.round of a number in thousandths (halves go up)
MathRound(n) == (n + Scale \div 2) \div Scale

extractVlrId(matchPage) ==
  LET ds == IF matchPage # <<>> /\ matchPage[1] = "/" THEN DigitRun(Tail(matchPage)) ELSE <<>>
  IN IF ds # <<>> /\ Len(matchPage) >= Len(ds) + 2 /\ matchPage[Len(ds) + 2] = "/"
       THEN ds ELSE Null

\* ------------------------------------------------------- normalizers
duelists ==
  {<<"j", "e", "t", "t">>,
   <<"r", "a", "z", "e">>,
   <<"r", "e", "y", "n", "a">>,
   <<"p", "h", "o", "e", "n", "i", "x">>,
   <<"y", "o", "r", "u">>,
   <<"n", "e", "o", "n">>,
   <<"i", "s", "o">>,
   <<"w", "a", "y", "l", "a", "y">>}

initiators ==
  {<<"s", "o", "v", "a">>,
   <<"b", "r", "e", "a", "c", "h">>,
   <<"s", "k", "y", "e">>,
   <<"f", "a", "d", "e">>,
   <<"g", "e", "k", "k", "o">>,
   <<"k", "a", "y", "o">>}

controllers ==
  {<<"b", "r", "i", "m", "s", "t", "o", "n", "e">>,
   <<"v", "i", "p", "e", "r">>,
   <<"o", "m", "e", "n">>,
   <<"a", "s", "t", "r", "a">>,
   <<"h", "a", "r", "b", "o", "r">>,
   <<"c", "l", "o", "v", "e">>}

sentinels ==
  {<<"s", "a", "g", "e">>,
   <<"c", "y", "p", "h", "e", "r">>,
   <<"k", "i", "l", "l", "j", "o", "y">>,
   <<"c", "h", "a", "m", "b", "e", "r">>,
   <<"d", "e", "a", "d", "l", "o", "c", "k">>,
   <<"v", "y", "s", "e">>,
   <<"t", "e", "j", "o">>}

inferAgentRole(agent) ==
  LET name == LowerStr(agent)
  IN IF \E d \in duelists : Includes(name, d) THEN "duelist"
     ELSE IF \E d \in initiators : Includes(name, d) THEN "initiator"
     ELSE IF \E d \in controllers : Includes(name, d) THEN "controller"
     ELSE IF \E d \in sentinels : Includes(name, d) THEN "sentinel"
     ELSE "duelist"

champions == <<"c", "h", "a", "m", "p", "i", "o", "n", "s">>

masters == <<"m", "a", "s", "t", "e", "r", "s">>

challengers == <<"c", "h", "a", "l", "l", "e", "n", "g", "e", "r", "s">>

ascension == <<"a", "s", "c", "e", "n", "s", "i", "o", "n">>

inferTier(eventName) ==
  LET lower == LowerStr(eventName)
  IN IF Includes(lower, champions) THEN "champions"
     ELSE IF Includes(lower, masters) THEN "masters"
     ELSE IF Includes(lower, challengers) \/ Includes(lower, ascension) THEN "challengers"
     ELSE "regular"

valid ==
  <<<<"B", "i", "n", "d">>,
    <<"H", "a", "v", "e", "n">>,
    <<"S", "p", "l", "i", "t">>,
    <<"A", "s", "c", "e", "n", "t">>,
    <<"I", "c", "e", "b", "o", "x">>,
    <<"B", "r", "e", "e", "z", "e">>,
    <<"F", "r", "a", "c", "t", "u", "r", "e">>,
    <<"P", "e", "a", "r", "l">>,
    <<"L", "o", "t", "u", "s">>,
    <<"S", "u", "n", "s", "e", "t">>,
    <<"A", "b", "y", "s", "s">>,
    <<"D", "r", "i", "f", "t">>>>

\* a normalisation that compares the label as written (variant)
normalizeMapNameExact(raw) ==
  LET hits == {i \in 1..Len(valid) : valid[i] = Trim(raw)}
  IN IF hits = {} THEN valid[1] ELSE valid[Min(hits)]

normalizeMapName(raw) ==
  LET lower == Trim(LowerStr(raw))
      hits == {i \in 1..Len(valid) : LowerStr(valid[i]) = lower}
  IN IF hits = {} THEN valid[1] ELSE valid[Min(hits)]

\* ------------------------------------------------------------- storage
\* The tables of the migrations; a row's id is its index.
EmptyDb ==
  [teams |-> <<>>, players |-> <<>>, events |-> <<>>, agents |-> <<>>,
   matches |-> <<>>, maps |-> <<>>, player_map_stats |-> <<>>,
   player_stats_aggregate |-> <<>>, rankings |-> <<>>]

EventTiers == {"international", "regional", "domestic", "qualifier"}

AgentRoles == {"duelist", "controller", "initiator", "sentinel"}

\* A NUMERIC(p, 2) column stores a number rounded to hundredths and refuses
\* one whose rounded magnitude has more than p - 2 integer digits.
Round2(n) ==
  IF n >= 0 THEN ((n + 5) \div 10) * 10 ELSE 0 - (((0 - n) + 5) \div 10) * 10

Numeric(v) == IF v = Null THEN Null ELSE <<Round2(v[1])>>

Fits(v, whole) ==
  v = Null \/ (Round2(v[1]) < whole * Scale /\ Round2(v[1]) > 0 - whole * Scale)

\* the row as its table's column types store it
Coerce(table, row) ==
  CASE table = "player_stats_aggregate" ->
         [row EXCEPT !.rating = Numeric(@), !.average_combat_score = Numeric(@)]
    [] table = "player_map_stats" ->
         [row EXCEPT !.acs = Numeric(@), !.adr = Numeric(@), !.kast = Numeric(@),
                     !.rating = Numeric(@), !.headshot_percentage = Numeric(@)]
    [] OTHER -> row

\* NOT NULL, UNIQUE and CHECK constraints and column ranges a new row must
\* satisfy.
ConstraintsHold(table, rows, row) ==
  CASE table = "teams" ->
         \A i \in 1..Len(rows) : rows[i].name # row.name
    [] table = "players" -> TRUE
    [] table = "events" -> row.tier \in EventTiers
    [] table = "agents" ->
         /\ \A i \in 1..Len(rows) : rows[i].name # row.name
         /\ row.role \in AgentRoles
    [] table = "matches" ->
         /\ \A i \in 1..Len(rows) : rows[i].vlr_id # row.vlr_id
         /\ row.team1_id # NoId
         /\ row.team2_id # NoId
    [] table = "maps" ->
         /\ row.match_id # NoId
         /\ \E i \in 1..Len(valid) : valid[i] = row.map_name
    [] table = "player_map_stats" ->
         /\ \A i \in 1..Len(rows) :
              ~(rows[i].map_id = row.map_id /\ rows[i].player_id = row.player_id)
         /\ row.map_id # NoId /\ row.player_id # NoId /\ row.team_id # NoId
         /\ row.kills # Null /\ row.deaths # Null /\ row.assists # Null
         /\ Fits(row.acs, 10000) /\ Fits(row.adr, 10000) /\ Fits(row.kast, 1000)
         /\ Fits(row.rating, 1000) /\ Fits(row.headshot_percentage, 1000)
    [] table = "player_stats_aggregate" ->
         /\ row.player_id # NoId
         /\ Fits(row.rating, 1000) /\ Fits(row.average_combat_score, 10000)
    [] table = "rankings" -> row.team_id # NoId

\* One invocation threads a context c: the tables, the ledger, the number w
\* of inspected writes attempted so far, the set fails of write numbers the
\* storage rejects, the row an unordered limit(1) returns (pick), the
\* records visited so far, the number dup of writes a declared constraint
\* refused, the number present of stat rows found already stored, the rows
\* ups the upserts stored and the identities calls the ensure operations
\* have returned.
NewCtx(env) ==
  [db |-> db, ledger |-> ledger, w |-> 0, fails |-> env.fails, pick |-> env.pick,
   visited |-> <<>>, dup |-> 0, present |-> 0, ups |-> <<>>, calls |-> hist.calls]

\* sb.from(table).insert(row).select("id").single()
Insert(c, table, row) ==
  Await({
    LET n == c.w + 1
        ok == legal /\ n \notin c.fails
    IN [c |-> [c EXCEPT !.w = n,
                        !.dup = IF legal THEN @ ELSE @ + 1,
                        !.db[table] = IF ok THEN Append(@, Coerce(table, row)) ELSE @],
        id |-> IF ok THEN Len(c.db[table]) + 1 ELSE NoId,
        error |-> ~ok]
    : legal \in {ConstraintsHold(table, c.db[table], row)} })

\* .limit(1).maybeSingle() over the rows a filter selects: no ORDER BY, so
\* the storage may return any of them.
Limit1(hits, pick) ==
  IF hits = {} THEN NoId ELSE IF pick = "lo" THEN Min(hits) ELSE Max(hits)

\* .maybeSingle() without limit: one row, or no data when several match.
MaybeSingle(hits) ==
  IF Cardinality(hits) = 1 THEN CHOOSE i \in hits : TRUE ELSE NoId

\* a ledger that keeps one row per endpoint, the latest (variant)
logRunLatest(c, source, endpoint, status, count, error, meta) ==
  [c EXCEPT !.ledger =
     Append(SelectSeq(@, LAMBDA e : e.endpoint # endpoint),
            [source |-> source, endpoint |-> endpoint, status |-> status,
             records_processed |-> count, error_message |-> error,
             metadata |-> meta])]

\* logRun: one row appended to ingestion_log.  The code does not inspect the
\* result of this insert and every row it builds satisfies the table's NOT
\* NULL columns; the storage is taken to accept it.
logRun(c, source, endpoint, status, count, error, meta) ==
  [c EXCEPT !.ledger = Append(@, [source |-> source, endpoint |-> endpoint,
                                  status |-> status,
                                  records_processed |-> count,
                                  error_message |-> error,
                                  metadata |-> meta])]

\* ------------------------------------------------ entity reconciliation
\* An ensure operation returns identity id for the trimmed name clean; the
\* context remembers which identity each name was given.
Return(c, table, clean, id) ==
  [c |-> IF id = NoId THEN c
         ELSE [c EXCEPT !.calls = @ \cup {<<table, LowerStr(clean), id>>}],
   id |-> id]

ensureTeam(c, name, region) ==
  IF Trim(name) = <<>> THEN [c |-> c, id |-> NoId]
  ELSE
    Await({
      IF existing # NoId THEN Return(c, "teams", clean, existing)
      ELSE Await({
        Return(r.c, "teams", clean, r.id)
        : r \in {Insert(c, "teams",
                        [name |-> clean,
                         abbreviation |->
                           UpperStr(SubSeq(clean, 1,
                                           IF Len(clean) < 4 THEN Len(clean) ELSE 4)),
                         region |-> region])} })
      : clean \in {Trim(name)},
        existing \in {Limit1({i \in 1..Len(c.db.teams) :
                                ILike(c.db.teams[i].name, Trim(name))}, c.pick)} })

ensurePlayer(c, ign, teamId) ==
  IF Trim(ign) = <<>> THEN [c |-> c, id |-> NoId]
  ELSE
    Await({
      IF existing # NoId
        THEN Return(IF teamId # NoId
                      THEN [c EXCEPT !.db.players[existing].current_team_id = teamId]
                      ELSE c,
                    "players", clean, existing)
      ELSE Await({
        Return(r.c, "players", clean, r.id)
        : r \in {Insert(c, "players", [ign |-> clean, current_team_id |-> teamId])} })
      : clean \in {Trim(ign)},
        existing \in {Limit1({i \in 1..Len(c.db.players) :
                                ILike(c.db.players[i].ign, Trim(ign))}, c.pick)} })

ensureEvent(c, name, region, tier) ==
  IF Trim(name) = <<>> THEN [c |-> c, id |-> NoId]
  ELSE
    Await({
      IF existing # NoId THEN Return(c, "events", clean, existing)
      ELSE Await({
        Return(r.c, "events", clean, r.id)
        : r \in {Insert(c, "events",
                        [name |-> clean,
                         tier |-> IF tier = "none" THEN inferTier(clean) ELSE tier,
                         region |-> region])} })
      : clean \in {Trim(name)},
        existing \in {Limit1({i \in 1..Len(c.db.events) :
                                ILike(c.db.events[i].name, Trim(name))}, c.pick)} })

ensureAgent(c, name) ==
  IF Trim(name) = <<>> THEN [c |-> c, id |-> NoId]
  ELSE
    Await({
      IF existing # NoId THEN Return(c, "agents", clean, existing)
      ELSE Await({
        Return(r.c, "agents", clean, r.id)
        : r \in {Insert(c, "agents",
                        [name |-> clean, role |-> inferAgentRole(clean)])} })
      : clean \in {Trim(name)},
        existing \in {Limit1({i \in 1..Len(c.db.agents) :
                                ILike(c.db.agents[i].name, Trim(name))}, c.pick)} })

\* ensureMap without its lookup (a variant the properties must tell apart)
ensureMapNoLookup(c, mapName, matchId, mapNumber, team1Rounds, team2Rounds, winnerId) ==
  Await({
    [c |-> r.c, id |-> r.id]
    : r \in {Insert(c, "maps",
                    [match_id |-> matchId, map_name |-> mapName,
                     map_number |-> mapNumber,
                     team1_rounds |-> team1Rounds, team2_rounds |-> team2Rounds,
                     winner_team_id |-> winnerId])} })

\* an ensureMap that brings a stored map row up to date (variant)
ensureMapRefresh(c, mapName, matchId, mapNumber, team1Rounds, team2Rounds, winnerId) ==
  Await({
    IF existing # NoId
      THEN [c |-> [c EXCEPT !.db.maps[existing] =
                     [@ EXCEPT !.map_name = mapName, !.team1_rounds = team1Rounds,
                               !.team2_rounds = team2Rounds,
                               !.winner_team_id = winnerId]],
            id |-> existing]
    ELSE Await({
      [c |-> r.c, id |-> r.id]
      : r \in {Insert(c, "maps",
                      [match_id |-> matchId, map_name |-> mapName,
                       map_number |-> mapNumber,
                       team1_rounds |-> team1Rounds, team2_rounds |-> team2Rounds,
                       winner_team_id |-> winnerId])} })
    : existing \in {Limit1({i \in 1..Len(c.db.maps) :
                              /\ c.db.maps[i].match_id = matchId
                              /\ c.db.maps[i].map_number = mapNumber}, c.pick)} })

ensureMap(c, mapName, matchId, mapNumber, team1Rounds, team2Rounds, winnerId) ==
  Await({
    IF existing # NoId THEN [c |-> c, id |-> existing]
    ELSE Await({
      [c |-> r.c, id |-> r.id]
      : r \in {Insert(c, "maps",
                      [match_id |-> matchId, map_name |-> mapName,
                       map_number |-> mapNumber,
                       team1_rounds |-> team1Rounds, team2_rounds |-> team2Rounds,
                       winner_team_id |-> winnerId])} })
    : existing \in {Limit1({i \in 1..Len(c.db.maps) :
                              /\ c.db.maps[i].match_id = matchId
                              /\ c.db.maps[i].map_number = mapNumber}, c.pick)} })

\* a match lookup that never finds the row (variant)
findMatchNone(c, vlrId) == NoId

\* sb.from("matches").select(...).eq("vlr_id", vlrId).maybeSingle()
findMatch(c, vlrId) ==
  MaybeSingle({k \in 1..Len(c.db.matches) : c.db.matches[k].vlr_id = vlrId})

\* an upsert that keeps the stored row on a key conflict (variant)
UpsertIgnore(c, table, row, key) ==
  Await({
    [c |-> [c EXCEPT !.w = @ + 1,
                     !.ups = IF ok THEN Append(@, <<table, row>>) ELSE @,
                     !.db[table] =
                       IF ok /\ same = {} THEN Append(@, Coerce(table, row)) ELSE @],
     error |-> ~ok]
    : ok \in {ConstraintsHold(table, c.db[table], row) /\ (c.w + 1) \notin c.fails},
      same \in {{i \in 1..Len(c.db[table]) :
                   \A k \in key : c.db[table][i][k] = row[k]}} })

\* sb.from(table).upsert(row, { onConflict: key })
Upsert(c, table, row, key) ==
  Await({
    [c |-> [c EXCEPT !.w = @ + 1,
                     !.ups = IF ok THEN Append(@, <<table, row>>) ELSE @,
                     !.db[table] =
                       IF ~ok THEN @
                       ELSE IF same = {} THEN Append(@, Coerce(table, row))
                       ELSE Tuple([i \in 1..Len(@) |->
                                     IF i \in same THEN Coerce(table, row) ELSE @[i]])],
     error |-> ~ok]
    : ok \in {ConstraintsHold(table, c.db[table], row) /\ (c.w + 1) \notin c.fails},
      same \in {{i \in 1..Len(c.db[table]) :
                   \A k \in key : c.db[table][i][k] = row[k]}} })

\* ----------------------------------------------------------------- fetch
\* A feed document: absent (fetchJson gave up), JSON null, an object without
\* data, data without segments, data with a segments array, or data that is
\* itself an array.
Doc(shape, segments) == [shape |-> shape, segments |-> segments]

NoDoc == Doc("absent", <<>>)

retries == 3

\* a retry loop that also retries after any other non-2xx status (variant)
RECURSIVE fetchLoopRetryStatus(_, _, _)
fetchLoopRetryStatus(resps, i, f) ==
  IF i >= retries THEN f
  ELSE
    LET res == resps[i + 1]
        g == [f EXCEPT !.requests = @ + 1, !.kinds = Append(@, res.kind)]
    IN CASE res.kind = "ok" -> [g EXCEPT !.doc = res.doc, !.returned = "doc"]
         [] res.kind \in {"429", "status"} ->
              fetchLoopRetryStatus(resps, i + 1,
                                   [g EXCEPT !.sleeps = Append(@, 1500 * (i + 1))])
         [] OTHER ->
              fetchLoopRetryStatus(resps, i + 1,
                                   IF i < retries - 1
                                     THEN [g EXCEPT !.sleeps = Append(@, 1000 * (i + 1))]
                                     ELSE g)

\* fetchJson, given the response the server gives to each request in turn.
\* resps[k].kind: "ok" (2xx, body parses), "badjson" (2xx, res.json() throws),
\* "429", "status" (another non-2xx status), "neterr" (fetch throws).
RECURSIVE fetchLoop(_, _, _)
fetchLoop(resps, i, f) ==
  IF i >= retries THEN f
  ELSE
    LET res == resps[i + 1]
        g == [f EXCEPT !.requests = @ + 1, !.kinds = Append(@, res.kind)]
    IN CASE res.kind = "ok" -> [g EXCEPT !.doc = res.doc, !.returned = "doc"]
         [] res.kind = "429" ->
              fetchLoop(resps, i + 1, [g EXCEPT !.sleeps = Append(@, 1500 * (i + 1))])
         [] res.kind = "status" -> [g EXCEPT !.returned = "status"]
         [] OTHER ->
              fetchLoop(resps, i + 1,
                        IF i < retries - 1
                          THEN [g EXCEPT !.sleeps = Append(@, 1000 * (i + 1))]
                          ELSE g)

fetchJson(resps) ==
  fetchLoop(resps, 0,
            [doc |-> NoDoc, requests |-> 0, kinds |-> <<>>, sleeps |-> <<>>,
             returned |-> "exhausted"])

\* json?.data?.segments ?? []: a missing container read as an empty one
\* (variant)
SegmentsOrEmpty(json) ==
  IF json.shape \in {"segments", "notarray"} THEN <<json.segments>> ELSE <<<<>>>>

\* json?.data?.segments, Null when the chain yields nothing (or a falsy
\* value); shape "notarray" is a document whose segments field holds a truthy
\* value that is not iterable (an object, a number, true).
Segments(json) ==
  IF json.shape \in {"segments", "notarray"} THEN <<json.segments>> ELSE Null

\* for (const seg of segments) throws a TypeError unless segments is iterable
Iterable(json) == json.shape # "notarray"

\* the exception leaves the adapter: nothing is logged, nothing is returned
Throw(c, f) == [c |-> c, ret |-> 0, fetch |-> f, threw |-> TRUE]

\* ------------------------------------------------------- feed adapters
\* A segment that is JSON null makes the first property access throw.
RECURSIVE statsLoop(_, _, _, _, _, _)
statsLoop(c, segments, i, count, region, timespan) ==
  IF i > Len(segments) THEN [c |-> c, count |-> count]
  ELSE
    LET seg == segments[i]
        c0 == [c EXCEPT !.visited = Append(@, <<i, 0>>)]
    IN IF seg.isNull THEN statsLoop(c0, segments, i + 1, count, region, timespan)
       ELSE Await({ Await({
         IF p.id = NoId THEN statsLoop(p.c, segments, i + 1, count, region, timespan)
         ELSE Await({
           statsLoop(u.c, segments, i + 1,
                     IF u.error THEN count ELSE count + 1, region, timespan)
           : u \in {Upsert(p.c, "player_stats_aggregate",
                           [player_id |-> p.id, region |-> region,
                            timespan |-> timespan,
                            rating |-> parseNum(seg.rating),
                            average_combat_score |-> parseNum(seg.average_combat_score),
                            snapshot_date |-> today],
                           {"player_id", "region", "timespan", "snapshot_date"})} })
         : p \in {ensurePlayer(t.c, seg.player, t.id)} })
         : t \in {ensureTeam(c0, seg.org, region)} })

ingestStats(c, resps, region, timespan) ==
  Await({
    IF Segments(f.doc) = Null
      THEN [c |-> logRun(c, "vlrggapi", <<"/stats", region>>, "error", 0,
                         "No data returned", Null),
            ret |-> 0, fetch |-> f, threw |-> FALSE]
    ELSE IF ~Iterable(f.doc) THEN Throw(c, f)
    ELSE Await({
      [c |-> logRun(r.c, "vlrggapi", <<"/stats", region, timespan>>, "success",
                    r.count, "null", Null),
       ret |-> r.count, fetch |-> f, threw |-> FALSE]
      : r \in {statsLoop(c, Segments(f.doc)[1], 1, 0, region, timespan)} })
    : f \in {fetchJson(resps)} })

Score(text) == IF Truthy(parseNum(text)) THEN parseInt(text) ELSE Null

RECURSIVE matchesLoop(_, _, _, _)
matchesLoop(c, segments, i, count) ==
  IF i > Len(segments) THEN [c |-> c, count |-> count]
  ELSE
    LET seg == segments[i]
        c0 == [c EXCEPT !.visited = Append(@, <<i, 0>>)]
        vlrId == extractVlrId(seg.match_page)
    IN IF seg.isNull THEN matchesLoop(c0, segments, i + 1, count)
       ELSE IF vlrId = Null THEN matchesLoop(c0, segments, i + 1, count)
       ELSE IF findMatch(c0, vlrId) # NoId
         THEN matchesLoop(c0, segments, i + 1, count + 1)
       ELSE Await({ Await({ Await({ Await({
         matchesLoop(ins.c, segments, i + 1, IF ins.error THEN count ELSE count + 1)
         : ins \in {Insert(ev.c, "matches",
                           [vlr_id |-> vlrId, vlr_url |-> seg.match_page,
                            team1_id |-> t1.id, team2_id |-> t2.id,
                            team1_score |-> Score(seg.score1),
                            team2_score |-> Score(seg.score2),
                            event_id |-> ev.id, match_date |-> today])} })
         : ev \in {IF seg.round_info # <<>>
                     THEN ensureEvent(t2.c, seg.round_info, "null", "none")
                     ELSE [c |-> t2.c, id |-> NoId]} })
         : t2 \in {ensureTeam(t1.c, seg.team2, "null")} })
         : t1 \in {ensureTeam(c0, seg.team1, "null")} })

ingestMatches(c, resps) ==
  Await({
    IF Segments(f.doc) = Null
      THEN [c |-> logRun(c, "vlrggapi", <<"/match?q=results">>, "error", 0,
                         "No data returned", Null),
            ret |-> 0, fetch |-> f, threw |-> FALSE]
    ELSE IF ~Iterable(f.doc) THEN Throw(c, f)
    ELSE Await({
      [c |-> logRun(r.c, "vlrggapi", <<"/match?q=results">>, "success",
                    r.count, "null", Null),
       ret |-> r.count, fetch |-> f, threw |-> FALSE]
      : r \in {matchesLoop(c, Segments(f.doc)[1], 1, 0)} })
    : f \in {fetchJson(resps)} })

\* a loop whose try/catch encloses the whole loop: the first exception ends
\* it (variant)
RECURSIVE eventsLoopAbort(_, _, _, _)
eventsLoopAbort(c, segments, i, count) ==
  IF i > Len(segments) THEN [c |-> c, count |-> count]
  ELSE
    LET seg == segments[i]
        c0 == [c EXCEPT !.visited = Append(@, <<i, 0>>)]
    IN IF seg.isNull THEN [c |-> c0, count |-> count]
       ELSE Await({
         eventsLoopAbort(ev.c, segments, i + 1, count + 1)
         : ev \in {ensureEvent(c0, seg.title, seg.region, "none")} })

RECURSIVE eventsLoop(_, _, _, _)
eventsLoop(c, segments, i, count) ==
  IF i > Len(segments) THEN [c |-> c, count |-> count]
  ELSE
    LET seg == segments[i]
        c0 == [c EXCEPT !.visited = Append(@, <<i, 0>>)]
    IN IF seg.isNull THEN eventsLoop(c0, segments, i + 1, count)
       ELSE Await({
         eventsLoop(ev.c, segments, i + 1, count + 1)
         : ev \in {ensureEvent(c0, seg.title, seg.region, "none")} })

ingestEvents(c, resps, status) ==
  Await({
    IF Segments(f.doc) = Null
      THEN [c |-> logRun(c, "vlrggapi", <<"/events", status>>, "error", 0,
                         "No data returned", Null),
            ret |-> 0, fetch |-> f, threw |-> FALSE]
    ELSE IF ~Iterable(f.doc) THEN Throw(c, f)
    ELSE Await({
      [c |-> logRun(r.c, "vlrggapi", <<"/events", status>>, "success",
                    r.count, "null", Null),
       ret |-> r.count, fetch |-> f, threw |-> FALSE]
      : r \in {eventsLoop(c, Segments(f.doc)[1], 1, 0)} })
    : f \in {fetchJson(resps)} })

RECURSIVE rankingsLoop(_, _, _, _, _)
rankingsLoop(c, segments, i, count, region) ==
  IF i > Len(segments) THEN [c |-> c, count |-> count]
  ELSE
    LET seg == segments[i]
        c0 == [c EXCEPT !.visited = Append(@, <<i, 0>>)]
    IN IF seg.isNull THEN rankingsLoop(c0, segments, i + 1, count, region)
       ELSE Await({
         IF t.id = NoId THEN rankingsLoop(t.c, segments, i + 1, count, region)
         ELSE Await({
           rankingsLoop(u.c, segments, i + 1,
                        IF u.error THEN count ELSE count + 1, region)
           : u \in {Upsert(t.c, "rankings",
                           [team_id |-> t.id, region |-> region,
                            rank |-> IF Truthy(parseInt(seg.rank))
                                       THEN parseInt(seg.rank)[1] ELSE 0,
                            record |-> seg.record,
                            snapshot_date |-> today],
                           {"team_id", "region", "snapshot_date"})} })
         : t \in {ensureTeam(c0, seg.team, region)} })

ingestRankings(c, resps, region) ==
  Await({
    LET json == f.doc
        segments == IF json.shape \in {"segments", "dataarray"} THEN json.segments
                    ELSE <<>>
    IN IF segments = <<>>
         THEN [c |-> logRun(c, "vlrggapi", <<"/rankings", region>>, "error", 0,
                            "No data returned", Null),
               ret |-> 0, fetch |-> f, threw |-> FALSE]
       ELSE Await({
         [c |-> logRun(r.c, "vlrggapi", <<"/rankings", region>>, "success",
                       r.count, "null", Null),
          ret |-> r.count, fetch |-> f, threw |-> FALSE]
         : r \in {rankingsLoop(c, segments, 1, 0, region)} })
    : f \in {fetchJson(resps)} })

\* ---------------------------------------------------------------- scraper
\* A match page is read through the scraper's patterns: titles are the
\* texts after the wf-title-med marker, nav the (game id, label) pairs of the
\* map navigation, labels the texts of the in-section class="map" spans, and
\* blocks the per-map sections, each with its game id, the texts after the
\* mod-t1/mod-t2 score markers and its player rows (name, agent title and the
\* texts the stat-cell pattern captures).
Nth(seq, k) == IF k + 1 <= Len(seq) THEN seq[k + 1] ELSE Null

\* a ?? b
Coalesce(a, b) == IF a # Null THEN a ELSE b

\* mapNames is a list of (game id, name) entries, the latest entry of an id
\* being its name.
HasName(names, gameId) == \E k \in 1..Len(names) : names[k].gameId = gameId

NameOf(names, gameId) ==
  names[Max({k \in 1..Len(names) : names[k].gameId = gameId})].label

\* mapNames after the navigation scan: the last non-empty label of each id
RECURSIVE navNames(_, _)
navNames(nav, names) ==
  IF nav = <<>> THEN names
  ELSE LET nameClean == Trim(nav[1].label)
       IN navNames(Tail(nav),
                   IF nameClean # <<>>
                     THEN Append(names, [gameId |-> nav[1].gameId, label |-> nameClean])
                     ELSE names)

\* the decimal text of a positive counter (String(mapIdx))
RECURSIVE ToText(_)
ToText(n) == IF n < 10 THEN <<Digits[n + 1]>> ELSE ToText(n \div 10) \o <<Digits[(n % 10) + 1]>>

\* mapNames after the in-section label scan
RECURSIVE labelNames(_, _, _)
labelNames(labels, names, mapIdx) ==
  IF labels = <<>> THEN names
  ELSE LET name == Trim(labels[1])
           key == ToText(mapIdx)
       IN IF name # <<>> /\ ~HasName(names, key)
            THEN labelNames(Tail(labels),
                            Append(names, [gameId |-> key, label |-> name]),
                            mapIdx + 1)
          ELSE labelNames(Tail(labels), names, mapIdx)

MapPrefix == <<"M", "a", "p", " ">>

scrapePlayer(row, playerIdx, team1, team2) ==
  Await({
    LET at(k) == IF k + 1 <= Len(statValues) THEN statValues[k + 1] ELSE Null
    IN [playerIgn |-> Trim(row.ign),
        agent |-> Trim(row.agent),
        rating |-> at(0),
        acs |-> Coalesce(at(1), at(0)),
        kills |-> Coalesce(at(2), at(1)),
        deaths |-> Coalesce(at(3), at(2)),
        assists |-> Coalesce(at(4), at(3)),
        kast |-> at(5),
        adr |-> at(6),
        hsPercent |-> at(7),
        firstKills |-> at(8),
        firstDeaths |-> at(9),
        team |-> IF playerIdx >= 5 THEN team2 ELSE team1]
    : statValues \in {Tuple([k \in 1..Len(row.cells) |-> parseNum(row.cells[k])])} })

scrapeMap(block, names, team1, team2) ==
  LET mapName == IF HasName(names, block.gameId) THEN NameOf(names, block.gameId)
                 ELSE MapPrefix \o block.gameId
      scores == Tuple([k \in 1..Len(block.scores) |-> parseInt(block.scores[k])])
  IN [mapName |-> normalizeMapName(mapName),
      mapNumber |-> parseInt(block.gameId)[1],
      team1Rounds |-> Nth(scores, 0),
      team2Rounds |-> Nth(scores, 1),
      players |-> Tuple([k \in 1..Len(block.rows) |->
                            scrapePlayer(block.rows[k], k - 1, team1, team2)])]

scrapeMatchPage(html) ==
  Await({
    [maps |-> Tuple([k \in 1..Len(html.blocks) |->
                       scrapeMap(html.blocks[k], mapNames, team1, team2)]),
     team1 |-> team1, team2 |-> team2]
    : team1 \in {IF Len(html.titles) >= 2 THEN Trim(html.titles[1]) ELSE <<>>},
      team2 \in {IF Len(html.titles) >= 2 THEN Trim(html.titles[2]) ELSE <<>>},
      mapNames \in {labelNames(html.labels, navNames(html.nav, <<>>), 1)} })

\* ------------------------------------------------ match-detail ingestion
NumOr0(v) == IF v = Null THEN 0 ELSE v[1]

Rounded(v) == IF Truthy(v) THEN <<MathRound(v[1])>> ELSE Null

RECURSIVE playersLoop(_, _, _, _, _, _, _, _)
playersLoop(c, sMap, mi, pi, count, mapId, matchRow, team1) ==
  IF pi > Len(sMap.players) THEN [c |-> c, count |-> count]
  ELSE
    LET p == sMap.players[pi]
        c0 == [c EXCEPT !.visited = Append(@, <<mi, pi>>)]
        teamId == IF p.team = team1 THEN matchRow.team1_id ELSE matchRow.team2_id
        roundsPlayed == NumOr0(sMap.team1Rounds) + NumOr0(sMap.team2Rounds)
    IN Await({
      IF pl.id = NoId
        THEN playersLoop(pl.c, sMap, mi, pi + 1, count, mapId, matchRow, team1)
      ELSE Await({
        IF MaybeSingle({k \in 1..Len(ag.c.db.player_map_stats) :
                          /\ ag.c.db.player_map_stats[k].map_id = mapId
                          /\ ag.c.db.player_map_stats[k].player_id = pl.id}) # NoId
          THEN playersLoop([ag.c EXCEPT !.present = @ + 1], sMap, mi, pi + 1,
                           count + 1, mapId, matchRow, team1)
        ELSE Await({
          playersLoop(ins.c, sMap, mi, pi + 1,
                      IF ins.error THEN count ELSE count + 1,
                      mapId, matchRow, team1)
          : ins \in {Insert(ag.c, "player_map_stats",
                            [map_id |-> mapId, player_id |-> pl.id, team_id |-> teamId,
                             agent_id |-> ag.id,
                             kills |-> Rounded(p.kills),
                             deaths |-> Rounded(p.deaths),
                             assists |-> Rounded(p.assists),
                             acs |-> p.acs, adr |-> p.adr, kast |-> p.kast,
                             rating |-> p.rating,
                             first_kills |-> Rounded(p.firstKills),
                             first_deaths |-> Rounded(p.firstDeaths),
                             headshot_percentage |-> p.hsPercent,
                             rounds_played |->
                               IF roundsPlayed # 0 THEN <<roundsPlayed>> ELSE Null])} })
        : ag \in {IF p.agent # <<>> THEN ensureAgent(pl.c, p.agent)
                  ELSE [c |-> pl.c, id |-> NoId]} })
      : pl \in {ensurePlayer(c0, p.playerIgn, teamId)} })

RECURSIVE mapsLoop(_, _, _, _, _, _)
mapsLoop(c, scrapedMaps, mi, count, matchRow, team1) ==
  IF mi > Len(scrapedMaps) THEN [c |-> c, count |-> count]
  ELSE
    LET sMap == scrapedMaps[mi]
        c0 == [c EXCEPT !.visited = Append(@, <<mi, 0>>)]
        r1 == NumOr0(sMap.team1Rounds)
        r2 == NumOr0(sMap.team2Rounds)
        winnerId == IF r1 > r2 THEN matchRow.team1_id
                    ELSE IF r2 > r1 THEN matchRow.team2_id ELSE NoId
    IN Await({
      IF m.id = NoId THEN mapsLoop(m.c, scrapedMaps, mi + 1, count, matchRow, team1)
      ELSE Await({
        mapsLoop(ps.c, scrapedMaps, mi + 1, ps.count, matchRow, team1)
        : ps \in {playersLoop(m.c, sMap, mi, 1, count, m.id, matchRow, team1)} })
      : m \in {ensureMap(c0, sMap.mapName, matchRow.id, sMap.mapNumber,
                         sMap.team1Rounds, sMap.team2Rounds, winnerId)} })

RECURSIVE SumPlayers(_)
SumPlayers(maps) ==
  IF maps = <<>> THEN 0 ELSE Len(maps[1].players) + SumPlayers(Tail(maps))

\* fetchHtml: the page text, or Null for a non-2xx status or a failed request
fetchHtml(res) == IF res.kind = "ok" THEN <<res.body>> ELSE Null

\* "Ensure match exists": the context and the identity of the Match row, NoId
\* when the insert failed
ensureMatch(c, vlrId, matchUrl, scraped) ==
  Await({
    IF found # NoId
      THEN [c |-> c, id |-> found]
    ELSE Await({ Await({ Await({
      [c |-> ins.c, id |-> ins.id]
      : ins \in {Insert(t2.c, "matches",
                        [vlr_id |-> vlrId, vlr_url |-> matchUrl,
                         team1_id |-> t1.id, team2_id |-> t2.id,
                         team1_score |-> <<0>>, team2_score |-> <<0>>,
                         event_id |-> NoId, match_date |-> today])} })
      : t2 \in {ensureTeam(t1.c, scraped.team2, "null")} })
      : t1 \in {ensureTeam(c, scraped.team1, "null")} })
    : found \in {findMatch(c, vlrId)} })

\* ingestMatchDetail once the page has yielded maps: reconcile the match,
\* then the maps and their player rows
ingestScraped(c, vlrId, matchUrl, scraped) ==
  Await({
    IF mt.id = NoId
      THEN [c |-> logRun(mt.c, "vlr_scrape", matchUrl, "error", 0,
                         "Match insert failed", Null),
            ret |-> 0, threw |-> FALSE]
    ELSE Await({
      [c |-> logRun(r.c, "vlr_scrape", matchUrl, "success", r.count, "null",
                    <<Len(scraped.maps), SumPlayers(scraped.maps)>>),
       ret |-> r.count, threw |-> FALSE]
      : r \in {mapsLoop(mt.c, scraped.maps, 1, 0,
                        [id |-> mt.id,
                         team1_id |-> mt.c.db.matches[mt.id].team1_id,
                         team2_id |-> mt.c.db.matches[mt.id].team2_id],
                        scraped.team1)} })
    : mt \in {ensureMatch(c, vlrId, matchUrl, scraped)} })

matchUrlOf(vlrId, vlrSlug) ==
  IF vlrSlug # <<>> THEN <<"/">> \o vlrId \o <<"/">> \o vlrSlug
  ELSE <<"/">> \o vlrId

\* ingestMatchDetail without the zero-maps guard (variant)
ingestMatchDetailUnguarded(c, vlrId, vlrSlug, res) ==
  LET html == fetchHtml(res)
      matchUrl == matchUrlOf(vlrId, vlrSlug)
  IN IF html = Null
       THEN [c |-> logRun(c, "vlr_scrape", matchUrl, "error", 0,
                          "Failed to fetch match page", Null),
             ret |-> 0, threw |-> FALSE]
     ELSE Await({
       ingestScraped(c, vlrId, matchUrl, scraped)
       : scraped \in {scrapeMatchPage(html[1])} })

ingestMatchDetail(c, vlrId, vlrSlug, res) ==
  LET html == fetchHtml(res)
      matchUrl == matchUrlOf(vlrId, vlrSlug)
  IN IF html = Null
       THEN [c |-> logRun(c, "vlr_scrape", matchUrl, "error", 0,
                          "Failed to fetch match page", Null),
             ret |-> 0, threw |-> FALSE]
     ELSE Await({
       IF Len(scraped.maps) = 0
         THEN [c |-> logRun(c, "vlr_scrape", matchUrl, "error", 0,
                            "No map data extracted from page", Null),
               ret |-> 0, threw |-> FALSE]
       ELSE ingestScraped(c, vlrId, matchUrl, scraped)
       : scraped \in {scrapeMatchPage(html[1])} })

\* ---------------------------------------------------------------- full run
REGIONS ==
  <<"na", "eu", "ap", "la", "la-s", "la-n", "oce", "kr", "mn", "gc", "br", "cn">>

keyRegions == <<"na", "eu", "ap", "br", "kr", "cn">>

\* the timespan of the stats stage of a full run
Timespan90 == <<"9", "0">>

\* The world a run talks to: the feed server's responses to the events
\* request of each status, to the results request, to the stats and rankings
\* requests of each region, and the page server's response for each match.
World(events, matches, stats, rankings, pages) ==
  [events |-> events, matches |-> matches, stats |-> stats,
   rankings |-> rankings, pages |-> pages]

Stage(op, arg) == [op |-> op, arg |-> arg]

\* the body of the loop over the key regions (variant: rankings first)
regionStagesRankingsFirst(region) ==
  <<Stage("rankings", region), Stage("stats", <<region, Timespan90>>)>>

\* the body of the loop over the key regions
regionStages(region) ==
  <<Stage("stats", <<region, Timespan90>>), Stage("rankings", region)>>

RECURSIVE regionLoop(_, _)
regionLoop(regions, i) ==
  IF i > Len(regions) THEN <<>>
  ELSE regionStages(regions[i]) \o regionLoop(regions, i + 1)

\* steps 1 to 3 of ingestFull
feedStages ==
  <<Stage("events", "completed"), Stage("events", "upcoming"), Stage("matches", "")>>
  \o regionLoop(keyRegions, 1)

\* String.prototype.replace(pattern, ""): the first occurrence is removed
RECURSIVE RemoveFirst(_, _)
RemoveFirst(s, pattern) ==
  IF IsPrefix(pattern, s) THEN SubSeq(s, Len(pattern) + 1, Len(s))
  ELSE IF s = <<>> THEN <<>>
  ELSE <<s[1]>> \o RemoveFirst(Tail(s), pattern)

\* the slug of a stored url; urls are kept relative to VLR_WEB, so the
\* first pattern, VLR_WEB followed by a slash, is the slash
slugOf(m) == RemoveFirst(RemoveFirst(m.vlr_url, <<"/">>), m.vlr_id \o <<"/">>)

\* one awaited call of a full run: the context after it, the count it
\* returned, the number of requests it issued, whether it threw
runStage(c, st, world) ==
  Await({
    [c |-> r.c, ret |-> r.ret, threw |-> r.threw,
     requests |-> IF st.op = "detail" THEN 1 ELSE r.fetch.requests]
    : r \in {CASE st.op = "events" -> ingestEvents(c, world.events[st.arg], st.arg)
               [] st.op = "matches" -> ingestMatches(c, world.matches)
               [] st.op = "stats" ->
                    ingestStats(c, world.stats[st.arg[1]], st.arg[1], st.arg[2])
               [] st.op = "rankings" ->
                    ingestRankings(c, world.rankings[st.arg], st.arg)
               [] st.op = "detail" ->
                    ingestMatchDetail(c, st.arg[1], st.arg[2], world.pages[st.arg[1]])} })

\* what a run has done so far: its context, the count each returned stage
\* contributed, the requests issued, and a trace with one entry when a stage
\* is called and one when it returns, each with the number of ledger
\* entries and of writes at that moment
Progress(c) == [c |-> c, results |-> <<>>, trace |-> <<>>, requests |-> 0, threw |-> FALSE]

Event(at, st, c) ==
  [at |-> at, stage |-> st, ledger |-> Len(c.ledger), w |-> c.w,
   visited |-> Len(c.visited)]

\* the awaited calls of a run, one after the other; an exception leaves the
\* run at the call that threw
RECURSIVE stagesLoop(_, _, _, _)
stagesLoop(acc, stages, i, world) ==
  IF i > Len(stages) THEN acc
  ELSE Await({ Await({
    IF r.threw THEN next ELSE stagesLoop(next, stages, i + 1, world)
    : next \in {[c |-> r.c,
                 results |-> IF r.threw THEN acc.results
                             ELSE Append(acc.results, <<stages[i], r.ret>>),
                 trace |-> acc.trace \o <<Event("call", stages[i], acc.c)>>
                           \o (IF r.threw THEN <<>>
                               ELSE <<Event("return", stages[i], r.c)>>),
                 requests |-> acc.requests + r.requests,
                 threw |-> r.threw]} })
    : r \in {runStage(acc.c, stages[i], world)} })

\* the rows of a query ordered by match_date, latest first; rows of equal
\* date come in the order the storage picks
RECURSIVE latestFirst(_, _, _)
latestFirst(ids, matches, pick) ==
  IF ids = {} THEN <<>>
  ELSE LET first == Limit1({i \in ids : \A j \in ids :
                              matches[j].match_date <= matches[i].match_date}, pick)
       IN <<first>> \o latestFirst(ids \ {first}, matches, pick)

recentLimit == 10

\* step 4 of ingestFull: the detail stages of the most recent matches
recentMatches(c) ==
  LET rows == latestFirst({i \in 1..Len(c.db.matches) : c.db.matches[i].vlr_id # Null},
                          c.db.matches, c.pick)
  IN SubSeq(rows, 1, Min({Len(rows), recentLimit}))

detailStages(c, rows) ==
  Tuple([k \in 1..Len(rows) |->
           Stage("detail", <<c.db.matches[rows[k]].vlr_id, slugOf(c.db.matches[rows[k]])>>)])

ingestFull(c, world) ==
  Await({
    IF feeds.threw THEN feeds
    ELSE Await({ stagesLoop(feeds, details, 1, world)
                 : details \in {detailStages(feeds.c, recentMatches(feeds.c))} })
    : feeds \in {stagesLoop(Progress(c), feedStages, 1, world)} })

\* ------------------------------------------------------------ HTTP handler
\* A request: its method, whether its body parses as JSON, and the fields
\* of the body ("" , <<>> and Null for a field the body does not carry).
Request(method, parses, body) == [method |-> method, parses |-> parses, body |-> body]

Body(mode, region, vlrId, limit) ==
  [mode |-> mode, region |-> region, timespan |-> <<>>, status |-> "",
   vlrId |-> vlrId, vlrSlug |-> <<>>, limit |-> limit]

\* {} : the body of a request that is not a POST
NoBody == Body("", "", <<>>, Null)

\* a mode without the default (variant)
modeOfAsGiven(body) == body.mode

\* body.mode || "full"
modeOf(body) == IF body.mode # "" THEN body.mode ELSE "full"

\* rows in the order an unordered query returns them
RECURSIVE storageOrder(_, _)
storageOrder(ids, pick) ==
  IF ids = {} THEN <<>>
  ELSE LET first == Limit1(ids, pick)
       IN <<first>> \o storageOrder(ids \ {first}, pick)

\* Array.prototype.slice(0, end)
Slice(seq, end) ==
  SubSeq(seq, 1, IF end < 0 THEN Max({Len(seq) + end, 0}) ELSE Min({end, Len(seq)}))

batchFetchLimit == 100

defaultBatchLimit == 5

\* matches with an external identifier, as the batch diff reads them
allMatches(c) ==
  LET rows == storageOrder({i \in 1..Len(c.db.matches) : c.db.matches[i].vlr_id # Null},
                           c.pick)
  IN SubSeq(rows, 1, Min({Len(rows), batchFetchLimit}))

\* those of them no maps row refers to
unscraped(c) ==
  LET scrapedSet == {c.db.maps[k].match_id : k \in 1..Len(c.db.maps)}
  IN SelectSeq(allMatches(c), LAMBDA i : i \notin scrapedSet)

\* the records of the calls that returned: result.records
RECURSIVE Total(_)
Total(results) ==
  IF results = <<>> THEN 0 ELSE results[1][2] + Total(Tail(results))

\* the handler's answer: the status of the response, the mode whose
\* ingestion ran ("none" when none did), the rows a batch picked and the
\* progress of the calls made
Answer(status, ran, picked, acc) ==
  [status |-> status, ran |-> ran, picked |-> picked, c |-> acc.c,
   ret |-> Total(acc.results),
   results |-> acc.results, trace |-> acc.trace, requests |-> acc.requests,
   threw |-> acc.threw]

\* the response after the switch: 200, or 500 when a call threw
Respond(mode, picked, acc) ==
  Answer(IF acc.threw THEN 500 ELSE 200, mode, picked, acc)

handler(c, req, world) ==
  IF req.method = "OPTIONS" THEN Answer(200, "none", <<>>, Progress(c))
  ELSE IF req.method = "POST" /\ ~req.parses
    THEN Answer(500, "none", <<>>, Progress(c))
  ELSE
    LET body == IF req.method = "POST" THEN req.body ELSE NoBody
        mode == modeOf(body)
        region == IF body.region # "" THEN body.region ELSE "na"
        timespan == IF body.timespan # <<>> THEN body.timespan ELSE <<"6", "0">>
        status == IF body.status # "" THEN body.status ELSE "completed"
        limit == IF Truthy(body.limit) THEN body.limit[1] ELSE defaultBatchLimit
    IN CASE mode = "stats" ->
              Await({ Respond(mode, <<>>, acc)
                      : acc \in {stagesLoop(Progress(c),
                                            <<Stage("stats", <<region, timespan>>)>>,
                                            1, world)} })
         [] mode = "matches" ->
              Await({ Respond(mode, <<>>, acc)
                      : acc \in {stagesLoop(Progress(c), <<Stage("matches", "")>>,
                                            1, world)} })
         [] mode = "events" ->
              Await({ Respond(mode, <<>>, acc)
                      : acc \in {stagesLoop(Progress(c), <<Stage("events", status)>>,
                                            1, world)} })
         [] mode = "rankings" ->
              Await({ Respond(mode, <<>>, acc)
                      : acc \in {stagesLoop(Progress(c), <<Stage("rankings", region)>>,
                                            1, world)} })
         [] mode = "match-detail" ->
              IF body.vlrId = <<>> THEN Answer(400, "none", <<>>, Progress(c))
              ELSE Await({ Respond(mode, <<>>, acc)
                           : acc \in {stagesLoop(Progress(c),
                                                 <<Stage("detail",
                                                         <<body.vlrId, body.vlrSlug>>)>>,
                                                 1, world)} })
         [] mode = "batch-detail" ->
              Await({ Await({ Respond(mode, picked, acc)
                              : acc \in {stagesLoop(Progress(c), detailStages(c, picked),
                                                    1, world)} })
                      : picked \in {Slice(unscraped(c), limit)} })
         [] mode = "full" ->
              Await({ Respond(mode, <<>>, acc) : acc \in {ingestFull(c, world)} })
         [] OTHER -> Answer(400, "none", <<>>, Progress(c))

\* ----------------------------------------------------------------- inputs
\* Texts the feeds and pages carry: a name, the same name in another case
\* with a trailing blank, a second name, a name that is one underscore, a
\* name with a backslash, and a blank.
NameA == <<"a">>
NameACaps == <<"A", " ">>
NameB == <<"b">>
NameUnderscore == <<"_">>
NameBackslash == <<"\\", "a">>
NameBlank == <<" ">>

Names == {NameA, NameACaps, NameB, NameUnderscore, NameBackslash, NameBlank}

\* What the storage does during one invocation: which inspected write it
\* rejects (at most one, among the first MaxFailAt) and which row an
\* unordered limit(1) returns.
Reliable == {[fails |-> {}, pick |-> "lo"], [fails |-> {}, pick |-> "hi"]}

Failing == {[fails |-> {k}, pick |-> "lo"] : k \in 1..MaxFailAt}

Envs == Reliable \cup Failing

Response(kind, doc) == [kind |-> kind, doc |-> doc]

\* a server that answers the first request with doc
Served(doc) == Tuple([k \in 1..retries |-> Response("ok", doc)])

\* a server that answers 429, then a body that does not parse, then doc
Retried(doc) ==
  Tuple([k \in 1..retries |->
           Response(IF k = 1 THEN "429" ELSE IF k = 2 THEN "badjson" ELSE "ok",
                    IF k = 3 THEN doc ELSE NoDoc)])

\* servers from which fetchJson gets no document
RateLimited == Tuple([k \in 1..retries |-> Response("429", NoDoc)])

Refused ==
  Tuple([k \in 1..retries |-> Response(IF k = 1 THEN "neterr" ELSE "status", NoDoc)])

StatSeg(org, player, rating, acs, isNull) ==
  [org |-> org, player |-> player, rating |-> rating,
   average_combat_score |-> acs, isNull |-> isNull]

NullStatSeg == StatSeg(<<>>, <<>>, <<>>, <<>>, TRUE)

StatsFeedA ==
  <<StatSeg(NameA, NameA, <<"1", ".", "2">>, <<"2", "5", "0">>, FALSE),
    NullStatSeg,
    StatSeg(NameB, NameACaps, <<"0", ".", "9", "8", "7">>, <<"-">>, FALSE),
    StatSeg(NameA, NameBlank, <<"1">>, <<"1">>, FALSE)>>

StatsFeedB ==
  <<StatSeg(NameB, NameB, <<"2">>, <<"1", ",", "0", "0", "0">>, FALSE),
    StatSeg(NameBlank, NameUnderscore, <<"3">>, <<"9", "%">>, FALSE),
    StatSeg(NameA, NameBackslash, <<"x">>, <<"7">>, FALSE)>>

\* two segments whose organisations and players are pairwise distinct
StatsFeedC ==
  <<StatSeg(NameA, NameB, <<"1">>, <<"2">>, FALSE),
    StatSeg(NameUnderscore, NameBackslash, <<"1">>, <<"2">>, FALSE)>>

Timespan == <<"6", "0">>

\* a document whose segments field is an object
NotArray == Doc("notarray", <<>>)

\* (responses of the feed server, region)
StatsInputs ==
  {<<Served(Doc("segments", StatsFeedA)), "na">>,
   <<Served(Doc("segments", StatsFeedA)), "eu">>,
   <<Served(Doc("segments", StatsFeedB)), "na">>,
   <<Retried(Doc("segments", StatsFeedB)), "eu">>,
   <<RateLimited, "eu">>}

StatsCore ==
  {<<Served(Doc("segments", StatsFeedA)), "na">>,
   <<Retried(Doc("segments", StatsFeedB)), "eu">>,
   <<Served(Doc("segments", StatsFeedC)), "na">>,
   <<Served(Doc("nosegments", <<>>)), "na">>,
   <<Served(NotArray), "na">>}

MatchSeg(page, team1, team2, info, score1, score2, isNull) ==
  [match_page |-> page, team1 |-> team1, team2 |-> team2, round_info |-> info,
   score1 |-> score1, score2 |-> score2, isNull |-> isNull]

NullMatchSeg == MatchSeg(<<>>, <<>>, <<>>, <<>>, <<>>, <<>>, TRUE)

Path1 == <<"/", "1", "/", "x">>
Path2 == <<"/", "2", "/", "y">>

MatchFeedA ==
  <<MatchSeg(Path1, NameA, NameB, <<>>, <<"2">>, <<"0">>, FALSE),
    NullMatchSeg,
    MatchSeg(Path1, NameACaps, NameUnderscore, masters, <<"1">>, <<"2">>, FALSE),
    MatchSeg(<<"x">>, NameA, NameB, <<>>, <<"2">>, <<"1">>, FALSE)>>

MatchFeedB ==
  <<MatchSeg(Path2, NameBlank, NameB, <<>>, <<"2">>, <<"1">>, FALSE),
    MatchSeg(Path2, NameB, NameA, <<>>, <<"2">>, <<"1">>, FALSE)>>

MatchFeedC ==
  <<MatchSeg(Path2, NameB, NameBlank, <<>>, <<"0">>, <<"2">>, FALSE)>>

MatchInputs ==
  {Served(Doc("segments", MatchFeedA)),
   Served(Doc("segments", MatchFeedB)),
   Served(Doc("segments", MatchFeedC)),
   Served(Doc("null", <<>>)),
   Refused}

MatchCore ==
  {Served(Doc("segments", MatchFeedA)),
   Served(Doc("segments", MatchFeedB)),
   Served(NotArray),
   Refused}

EventSeg(title, region, isNull) == [title |-> title, region |-> region, isNull |-> isNull]

EventFeedA ==
  <<EventSeg(masters, "na", FALSE), EventSeg(<<>>, "null", TRUE),
    EventSeg(NameBlank, "na", FALSE)>>

\* (responses of the feed server, status)
EventInputs ==
  {<<Served(Doc("segments", EventFeedA)), "completed">>,
   <<Served(Doc("segments", <<>>)), "upcoming">>,
   <<Served(Doc("nodata", <<>>)), "upcoming">>,
   <<Served(NotArray), "upcoming">>,
   <<RateLimited, "completed">>}

RankSeg(team, rank, record, isNull) ==
  [team |-> team, rank |-> rank, record |-> record, isNull |-> isNull]

RankFeedA ==
  <<RankSeg(NameA, <<"1">>, <<"5">>, FALSE),
    RankSeg(<<>>, <<>>, <<>>, TRUE),
    RankSeg(NameACaps, <<"x">>, <<>>, FALSE),
    RankSeg(NameBlank, <<"3">>, <<"2">>, FALSE)>>

RankFeedB ==
  <<RankSeg(NameB, <<"2">>, <<"1">>, FALSE),
    RankSeg(NameUnderscore, <<"7">>, <<"4">>, FALSE)>>

\* (responses of the feed server, region)
RankInputs ==
  {<<Served(Doc("segments", RankFeedA)), "na">>,
   <<Served(Doc("segments", RankFeedA)), "eu">>,
   <<Served(Doc("dataarray", RankFeedB)), "na">>,
   <<Served(Doc("segments", <<>>)), "na">>,
   <<Refused, "na">>}

RankCore ==
  {<<Served(Doc("segments", RankFeedA)), "na">>,
   <<Served(Doc("dataarray", RankFeedB)), "na">>,
   <<Served(Doc("nosegments", <<>>)), "eu">>,
   <<Served(NotArray), "eu">>}

Row(ign, agent, cells) == [ign |-> ign, agent |-> agent, cells |-> cells]

Block(gameId, scores, rows) == [gameId |-> gameId, scores |-> scores, rows |-> rows]

NavItem(gameId, label) == [gameId |-> gameId, label |-> label]

Page(titles, nav, labels, blocks) ==
  [titles |-> titles, nav |-> nav, labels |-> labels, blocks |-> blocks]

Jett == <<"J", "e", "t", "t">>

FullCells ==
  <<<<"1", ".", "2">>, <<"2", "5", "0">>, <<"2", "0">>, <<"1", "0">>, <<"5">>,
    <<"7", "5">>, <<"1", "5", "0">>, <<"2", "5">>, <<"3">>, <<"2">>>>

\* a row whose kills cell reads 0
ZeroKillCells ==
  <<<<"0", ".", "5">>, <<"9", "0">>, <<"0">>, <<"1", "5">>, <<"1">>, <<"4", "0">>>>

PageA ==
  Page(<<NameA, NameB>>, <<NavItem(<<"1">>, valid[2])>>, <<>>,
       <<Block(<<"1">>, <<<<"1", "3">>, <<"7">>>>,
               <<Row(NameA, Jett, FullCells), Row(NameACaps, Jett, FullCells),
                 Row(NameB, <<>>, ZeroKillCells)>>)>>)

PageB ==
  Page(<<NameA, NameB>>, <<>>, <<valid[3]>>,
       <<Block(<<"1">>, <<<<"5">>, <<"1", "3">>>>,
               <<Row(NameBackslash, Jett, FullCells), Row(NameBlank, Jett, FullCells)>>),
         Block(<<"2">>, <<>>, <<Row(NameUnderscore, Jett, FullCells)>>),
         Block(<<"2">>, <<>>, <<Row(NameB, Jett, FullCells)>>)>>)

PageNoTitles ==
  Page(<<>>, <<>>, <<>>,
       <<Block(<<"1">>, <<<<"1", "3">>, <<"1", "1">>>>,
               <<Row(NameB, Jett, FullCells)>>)>>)

PageNoMaps == Page(<<NameA, NameB>>, <<>>, <<>>, <<>>)

\* a row of which one stat cell was captured: no kills, deaths or assists
PartialCells == <<<<"2", "5", "0">>>>

\* the label of Haven in another letter case
HavenMixed == <<"h", "A", "V", "E", "N">>

PagePartial ==
  Page(<<NameA, NameB>>, <<NavItem(<<"1">>, HavenMixed)>>, <<>>,
       <<Block(<<"1">>, <<<<"1", "3">>, <<"7">>>>,
               <<Row(NameA, Jett, FullCells), Row(NameB, Jett, PartialCells)>>)>>)

Html(pg) == [kind |-> "ok", body |-> pg]

NoPage == [kind |-> "status", body |-> Page(<<>>, <<>>, <<>>, <<>>)]

\* (external match identifier, slug, response to the page request)
DetailInputs ==
  {<<<<"1">>, <<"x">>, Html(PageA)>>,
   <<<<"1">>, <<"x">>, Html(PageB)>>,
   <<<<"2">>, <<>>, Html(PageB)>>,
   <<<<"2">>, <<>>, Html(PageNoTitles)>>,
   <<<<"1">>, <<"x">>, Html(PageNoMaps)>>,
   <<<<"2">>, <<>>, NoPage>>}

DetailCore ==
  {<<<<"1">>, <<"x">>, Html(PageA)>>,
   <<<<"1">>, <<"x">>, Html(PagePartial)>>,
   <<<<"2">>, <<>>, Html(PageB)>>,
   <<<<"2">>, <<>>, Html(PageNoTitles)>>,
   <<<<"1">>, <<"x">>, Html(PageNoMaps)>>,
   <<<<"2">>, <<>>, NoPage>>}

\* what the feed server may answer to one request of fetchJson
DocX == Doc("segments", <<>>)

DocY == Doc("nodata", <<>>)

FetchResponses ==
  {Response("ok", DocX), Response("ok", DocY), Response("badjson", NoDoc),
   Response("429", NoDoc), Response("status", NoDoc), Response("neterr", NoDoc)}

FetchScripts == {Tuple(r) : r \in [1..retries -> FetchResponses]}

\* ------------------------------------------------------------ operations
NoFetch ==
  [requests |-> 0, kinds |-> <<>>, sleeps |-> <<>>, returned |-> "none"]

FetchInfo(f) ==
  [requests |-> f.requests, kinds |-> f.kinds, sleeps |-> f.sleeps,
   returned |-> f.returned]

Rejected(env, c) == env.fails \cap (1..c.w) # {}

\* what the handler answered: nothing yet
NoOut ==
  [status |-> 0, ran |-> "none", picked |-> <<>>, unscraped |-> <<>>,
   results |-> <<>>, trace |-> <<>>, requests |-> 0]

\* what the last operation was given and what it did
RunRec(op, arg, json, res, fetch, env, r) ==
  [n |-> run.n + 1, op |-> op, arg |-> arg, json |-> json, res |-> res,
   fetch |-> fetch, ret |-> r.ret, threw |-> r.threw, visited |-> r.c.visited,
   w |-> r.c.w, rejected |-> Rejected(env, r.c), dup |-> r.c.dup,
   present |-> r.c.present, ups |-> r.c.ups, out |-> NoOut]

\* no ensure operation between its lookup and its insert
NoCalls == [calls |-> <<>>, order |-> <<>>]

\* no invocation yet
Idle ==
  [n |-> 0, op |-> "init", arg |-> <<>>, json |-> NoDoc, res |-> NoPage,
   fetch |-> NoFetch, ret |-> 0, threw |-> FALSE, visited |-> <<>>,
   w |-> 0, rejected |-> FALSE, dup |-> 0, present |-> 0, ups |-> <<>>,
   out |-> NoOut]

Init ==
  /\ db = EmptyDb
  /\ ledger = <<>>
  /\ today = 1
  /\ hist = [scraped |-> {}, calls |-> {}]
  /\ run = Idle
  /\ inflight = NoCalls

IngestStats(inputs, envs) ==
  /\ run.n < MaxRuns
  /\ \E in \in inputs, env \in envs :
       \E c \in {NewCtx(env)} : \E r \in {ingestStats(c, in[1], in[2], Timespan)} :
          /\ db' = r.c.db
          /\ ledger' = r.c.ledger
          /\ run' = RunRec("stats", <<in[2]>>, r.fetch.doc, NoPage,
                           FetchInfo(r.fetch), env, r)
          /\ hist' = [hist EXCEPT !.calls = r.c.calls]
  /\ UNCHANGED <<today, inflight>>

IngestMatches(inputs, envs) ==
  /\ run.n < MaxRuns
  /\ \E resps \in inputs, env \in envs :
       \E c \in {NewCtx(env)} : \E r \in {ingestMatches(c, resps)} :
          /\ db' = r.c.db
          /\ ledger' = r.c.ledger
          /\ run' = RunRec("matches", <<>>, r.fetch.doc, NoPage,
                           FetchInfo(r.fetch), env, r)
          /\ hist' = [hist EXCEPT !.calls = r.c.calls]
  /\ UNCHANGED <<today, inflight>>

IngestEvents(inputs, envs) ==
  /\ run.n < MaxRuns
  /\ \E in \in inputs, env \in envs :
       \E c \in {NewCtx(env)} : \E r \in {ingestEvents(c, in[1], in[2])} :
          /\ db' = r.c.db
          /\ ledger' = r.c.ledger
          /\ run' = RunRec("events", <<in[2]>>, r.fetch.doc, NoPage,
                           FetchInfo(r.fetch), env, r)
          /\ hist' = [hist EXCEPT !.calls = r.c.calls]
  /\ UNCHANGED <<today, inflight>>

IngestRankings(inputs, envs) ==
  /\ run.n < MaxRuns
  /\ \E in \in inputs, env \in envs :
       \E c \in {NewCtx(env)} : \E r \in {ingestRankings(c, in[1], in[2])} :
          /\ db' = r.c.db
          /\ ledger' = r.c.ledger
          /\ run' = RunRec("rankings", <<in[2]>>, r.fetch.doc, NoPage,
                           FetchInfo(r.fetch), env, r)
          /\ hist' = [hist EXCEPT !.calls = r.c.calls]
  /\ UNCHANGED <<today, inflight>>

\* hist.scraped remembers the (match, page) pairs a run has scraped with
\* every write accepted by the storage
IngestMatchDetail(inputs, envs) ==
  /\ run.n < MaxRuns
  /\ \E in \in inputs, env \in envs :
       \E c \in {NewCtx(env)} : \E r \in {ingestMatchDetail(c, in[1], in[2], in[3])} :
          /\ db' = r.c.db
          /\ ledger' = r.c.ledger
          /\ run' = RunRec("detail", <<in[1], in[2]>>, NoDoc, in[3], NoFetch, env, r)
          /\ hist' = [hist EXCEPT
                        !.calls = r.c.calls,
                        !.scraped =
                          IF /\ r.c.ledger[Len(r.c.ledger)].status = "success"
                             /\ ~Rejected(env, r.c)
                            THEN @ \cup {<<in[1], in[3]>>} ELSE @]
  /\ UNCHANGED <<today, inflight>>

\* one call of fetchJson against a server that answers resps
FetchJsonCall ==
  /\ run.n < MaxRuns
  /\ \E resps \in FetchScripts :
       \E f \in {fetchJson(resps)} :
          run' = [run EXCEPT !.n = @ + 1, !.op = "fetch", !.arg = resps,
                             !.json = f.doc, !.fetch = FetchInfo(f)]
  /\ UNCHANGED <<db, ledger, hist, today, inflight>>

\* midnight passes: new Date() yields the next snapshot date
Tick ==
  /\ today < MaxDay
  /\ today' = today + 1
  /\ UNCHANGED <<db, ledger, run, hist, inflight>>

\* a storage that rejects at most one write and returns the first match
Faulty == Failing \cup {[fails |-> {}, pick |-> "lo"]}

\* every ingestion operation
Next ==
  \/ IngestStats(StatsCore, Faulty)
  \/ IngestMatches(MatchCore, Faulty)
  \/ IngestEvents(EventInputs, Faulty)
  \/ IngestRankings(RankCore, Faulty)
  \/ IngestMatchDetail(DetailCore, Faulty)

Spec == Init /\ [][Next]_vars

\* the results feed and the match pages
NextMatch ==
  \/ IngestMatches(MatchInputs, Envs)
  \/ IngestMatchDetail(DetailInputs, Envs)

SpecMatch == Init /\ [][NextMatch]_vars

\* the snapshot feeds, over several days
NextFeeds ==
  \/ IngestStats(StatsInputs, Envs)
  \/ IngestRankings(RankInputs, Envs)
  \/ Tick

SpecFeeds == Init /\ [][NextFeeds]_vars

\* fetchJson alone
NextFetch == FetchJsonCall

SpecFetch == Init /\ [][NextFetch]_vars

\* the scraper's reading of one player row: the captured cells of the row
\* are the input, cell k holding either the decimal text of k or a lone dot
MaxCells == 10

CellRows ==
  UNION {{Tuple([k \in 1..n |-> IF k \in dots THEN <<".">> ELSE ToText(k - 1)])
            : dots \in SUBSET (1..n)} : n \in 0..MaxCells}

InitScrape ==
  /\ db = EmptyDb
  /\ ledger = <<>>
  /\ today = 1
  /\ hist = [scraped |-> {}, calls |-> {}]
  /\ run \in {[Idle EXCEPT !.arg = cells] : cells \in CellRows}
  /\ inflight = NoCalls

ScrapePlayer ==
  /\ run.op = "init"
  /\ \E playerIdx \in {0, 5} :
       \E p \in {scrapePlayer(Row(NameACaps, Jett, run.arg), playerIdx, NameA, NameB)} :
          run' = [run EXCEPT !.n = @ + 1, !.op = "scrape", !.res = p]
  /\ UNCHANGED <<db, ledger, hist, today, inflight>>

NextScrape == ScrapePlayer

SpecScrape == InitScrape /\ [][NextScrape]_vars

\* the handler: one request against one world
EveryRegion(resps) == [region \in {REGIONS[k] : k \in 1..Len(REGIONS)} |-> resps]

EventsUp ==
  [status \in {"completed", "upcoming"} |->
     IF status = "completed" THEN Served(Doc("segments", EventFeedA))
     ELSE Served(Doc("segments", <<>>))]

EventsDown ==
  [status \in {"completed", "upcoming"} |->
     IF status = "completed" THEN RateLimited ELSE Served(Doc("nodata", <<>>))]

\* a results feed of two matches
MatchFeedD ==
  <<MatchSeg(Path1, NameA, NameB, <<>>, <<"2">>, <<"0">>, FALSE),
    MatchSeg(Path2, NameB, NameA, <<>>, <<"1">>, <<"2">>, FALSE)>>

PagesUp == [vlrId \in {<<"1">>, <<"2">>} |-> Html(PagePartial)]

PagesDown ==
  [vlrId \in {<<"1">>, <<"2">>} |-> IF vlrId = <<"1">> THEN NoPage ELSE Html(PageNoMaps)]

\* every server answers
WorldUp ==
  World(EventsUp, Served(Doc("segments", MatchFeedD)),
        EveryRegion(Served(Doc("segments", StatsFeedC))),
        EveryRegion(Served(Doc("dataarray", RankFeedB))), PagesUp)

\* every stage fails entirely: no response, no container field, no page, a
\* page without maps
WorldDown ==
  World(EventsDown, Refused, EveryRegion(RateLimited),
        EveryRegion(Served(Doc("nosegments", <<>>))), PagesDown)

\* the matches are known but their pages are not served, the stats of one
\* region and the rankings of another fail
WorldPartial ==
  World(EventsDown, Served(Doc("segments", MatchFeedD)),
        [EveryRegion(Served(Doc("segments", StatsFeedC))) EXCEPT !["eu"] = RateLimited],
        [EveryRegion(Served(Doc("dataarray", RankFeedB))) EXCEPT !["ap"] = Refused],
        PagesDown)

\* the events feed is down and the results feed answers with a segments
\* field that is an object
WorldBroken ==
  World(EventsDown, Served(NotArray), EveryRegion(Served(Doc("segments", StatsFeedC))),
        EveryRegion(Served(Doc("dataarray", RankFeedB))), PagesUp)

Post(mode, region, vlrId, limit) == Request("POST", TRUE, Body(mode, region, vlrId, limit))

\* (request, world)
ServeInputs ==
  {<<Request("GET", TRUE, NoBody), WorldUp>>,
   <<Post("full", "", <<>>, Null), WorldDown>>,
   <<Post("", "", <<>>, Null), WorldPartial>>,
   <<Post("full", "", <<>>, Null), WorldBroken>>,
   <<Post("stats", "eu", <<>>, Null), WorldUp>>,
   <<Post("matches", "", <<>>, Null), WorldUp>>,
   <<Post("events", "", <<>>, Null), WorldUp>>,
   <<Post("rankings", "", <<>>, Null), WorldUp>>,
   <<Post("match-detail", "", <<"1">>, Null), WorldUp>>,
   <<Post("match-detail", "", <<>>, Null), WorldUp>>,
   <<Post("batch-detail", "", <<>>, Null), WorldUp>>,
   <<Post("batch-detail", "", <<>>, <<0>>), WorldUp>>,
   <<Post("batch-detail", "", <<>>, <<1>>), WorldUp>>,
   <<Post("batch-detail", "", <<>>, <<1>>), WorldDown>>,
   <<Post("bogus", "", <<"1">>, Null), WorldUp>>,
   <<Request("OPTIONS", TRUE, NoBody), WorldUp>>,
   <<Request("POST", FALSE, NoBody), WorldUp>>}

Serve(inputs, envs) ==
  /\ run.n < MaxRuns
  /\ \E in \in inputs, env \in envs :
       \E c \in {NewCtx(env)} : \E h \in {handler(c, in[1], in[2])} :
          /\ db' = h.c.db
          /\ ledger' = h.c.ledger
          /\ run' = [RunRec("serve", in[1], NoDoc, NoPage, NoFetch, env, h)
                       EXCEPT !.out = [status |-> h.status, ran |-> h.ran,
                                       picked |-> h.picked,
                                       unscraped |-> unscraped(c),
                                       results |-> h.results, trace |-> h.trace,
                                       requests |-> h.requests]]
          /\ hist' = [hist EXCEPT !.calls = h.c.calls]
  /\ UNCHANGED <<today, inflight>>

NextServe == Serve(ServeInputs, Reliable)

SpecServe == Init /\ [][NextServe]_vars

\* Two invocations overlap: each is inside an ensure operation for a name,
\* at its lookup, at its insert or done.  The storage serves one statement
\* at a time; order lists the statements in the order it served them.
Call(table, name) ==
  [table |-> table, name |-> name, pc |-> "lookup", existing |-> NoId, id |-> NoId]

RaceNames == {NameA, NameACaps, NameB, NameBlank}

Steady == [fails |-> {}, pick |-> "lo"]

InitRace ==
  /\ db = EmptyDb
  /\ ledger = <<>>
  /\ today = 1
  /\ hist = [scraped |-> {}, calls |-> {}]
  /\ run = Idle
  /\ inflight \in {[calls |-> <<Call(table, n1), Call(table, n2)>>, order |-> <<>>]
                     : table \in {"teams", "players"}, n1 \in RaceNames, n2 \in RaceNames}

NameColumn(table) == IF table = "teams" THEN "name" ELSE "ign"

\* the select of ensureTeam and ensurePlayer
lookup(c, table, clean) ==
  Limit1({i \in 1..Len(c.db[table]) : ILike(c.db[table][i][NameColumn(table)], clean)},
         c.pick)

NewRow(table, clean) ==
  IF table = "teams"
    THEN [name |-> clean,
          abbreviation |->
            UpperStr(SubSeq(clean, 1, IF Len(clean) < 4 THEN Len(clean) ELSE 4)),
          region |-> "null"]
  ELSE [ign |-> clean, current_team_id |-> NoId]

\* an insert that looks the name up again in the same statement (variant)
createIfAbsent(c, table, clean) ==
  IF lookup(c, table, clean) # NoId
    THEN [c |-> c, id |-> lookup(c, table, clean), error |-> FALSE]
  ELSE Insert(c, table, NewRow(table, clean))

\* the insert of ensureTeam and ensurePlayer
create(c, table, clean) ==
  Insert(c, table, NewRow(table, clean))

\* invocation p passes the guard on the name and awaits its select
Lookup(p) ==
  /\ inflight.calls[p].pc = "lookup"
  /\ \E clean \in {Trim(inflight.calls[p].name)} :
       \E c \in {NewCtx(Steady)} :
         \E existing \in {IF clean = <<>> THEN NoId
                          ELSE lookup(c, inflight.calls[p].table, clean)} :
           inflight' =
             [inflight EXCEPT
                !.calls[p].pc = IF clean = <<>> \/ existing # NoId THEN "done"
                                ELSE "insert",
                !.calls[p].existing = existing,
                !.calls[p].id = existing,
                !.order = IF clean = <<>> THEN @ ELSE Append(@, <<"select", p>>)]
  /\ UNCHANGED <<db, ledger, run, hist, today>>

\* invocation p, having found no row, awaits its insert
Create(p) ==
  /\ inflight.calls[p].pc = "insert"
  /\ \E c \in {NewCtx(Steady)} :
       \E r \in {create(c, inflight.calls[p].table, Trim(inflight.calls[p].name))} :
         /\ db' = r.c.db
         /\ inflight' = [inflight EXCEPT !.calls[p].pc = "done",
                                         !.calls[p].id = r.id,
                                         !.order = Append(@, <<"insert", p>>)]
  /\ UNCHANGED <<ledger, run, hist, today>>

NextRace ==
  \/ \E p \in {1, 2} : Lookup(p)
  \/ \E p \in {1, 2} : Create(p)

SpecRace == InitRace /\ [][NextRace]_vars

\* The handler, one awaited step at a time.  What an invocation calls and
\* what each call finds and writes are those of handler; the steps follow
\* its control.  An invocation stands at the switch ("received"), between
\* two awaited calls ("stage"), at a request of the fetch of a call
\* ("fetch"), at the timer of a retry ("sleep"), inside the record loop of a
\* call ("records") or at its response ("reply").  queue holds the calls
\* still to make, i the attempt of fetchJson, j the records the loop of the
\* call has passed.
NoWorld == World(<<>>, <<>>, <<>>, <<>>, <<>>)

\* an awaited call of an invocation: its stage, the records its loop goes
\* through, whether it throws
Awaited(stage, n, threw) == [stage |-> stage, n |-> n, threw |-> threw]

\* the awaited calls of an answer, from its trace
RECURSIVE awaitedCalls(_, _)
awaitedCalls(h, k) ==
  IF k > Len(h.trace) THEN <<>>
  ELSE IF h.trace[k].at # "call" THEN awaitedCalls(h, k + 1)
  ELSE IF k < Len(h.trace) /\ h.trace[k + 1].at = "return"
    THEN <<Awaited(h.trace[k].stage, h.trace[k + 1].visited - h.trace[k].visited, FALSE)>>
         \o awaitedCalls(h, k + 2)
  ELSE <<Awaited(h.trace[k].stage, Len(h.c.visited) - h.trace[k].visited, TRUE)>>

Serving(pc, req, world, h) ==
  [pc |-> pc, req |-> req, world |-> world, queue |-> awaitedCalls(h, 1),
   i |-> 0, j |-> 0, slept |-> FALSE, threw |-> FALSE, status |-> h.status,
   db |-> h.c.db, ledger |-> h.c.ledger, calls |-> h.c.calls]

NotServing ==
  [pc |-> "idle", req |-> Request("GET", TRUE, NoBody), world |-> NoWorld,
   queue |-> <<>>, i |-> 0, j |-> 0, slept |-> FALSE, threw |-> FALSE, status |-> 0,
   db |-> EmptyDb, ledger |-> <<>>, calls |-> {}]

InitLive ==
  /\ db = EmptyDb
  /\ ledger = <<>>
  /\ today = 1
  /\ hist = [scraped |-> {}, calls |-> {}]
  /\ run = Idle
  /\ inflight = NotServing

\* the answers of the feed server to the requests of a call
responsesOf(st, world) ==
  CASE st.op = "events" -> world.events[st.arg]
    [] st.op = "matches" -> world.matches
    [] st.op = "stats" -> world.stats[st.arg[1]]
    [] st.op = "rankings" -> world.rankings[st.arg]

\* a retry that does not count the attempt (variant)
sameAttempt(i) == i

\* i++ of the loop of fetchJson
nextAttempt(i) == i + 1

\* (request, world)
LiveInputs ==
  {<<Request("GET", TRUE, NoBody), WorldUp>>,
   <<Post("", "", <<>>, Null), WorldPartial>>,
   <<Post("full", "", <<>>, Null), WorldBroken>>,
   <<Post("stats", "eu", <<>>, Null), WorldPartial>>,
   <<Post("matches", "", <<>>, Null), WorldDown>>,
   <<Post("batch-detail", "", <<>>, <<1>>), WorldUp>>,
   <<Post("bogus", "", <<"1">>, Null), WorldUp>>,
   <<Request("OPTIONS", TRUE, NoBody), WorldUp>>,
   <<Request("POST", FALSE, NoBody), WorldUp>>}

\* a request arrives
Receive ==
  /\ inflight.pc \in {"idle", "answered"}
  /\ run.n < MaxRuns
  /\ \E in \in LiveInputs :
       \E c \in {NewCtx(Steady)} : \E h \in {handler(c, in[1], in[2])} :
         inflight' = Serving("received", in[1], in[2], h)
  /\ UNCHANGED <<db, ledger, run, hist, today>>

\* the method, the body and the switch on the mode: a mode that runs goes
\* to its first awaited call
Dispatch ==
  /\ inflight.pc = "received"
  /\ inflight' = [inflight EXCEPT !.pc = IF inflight.queue = <<>> THEN "reply"
                                         ELSE "stage"]
  /\ UNCHANGED <<db, ledger, run, hist, today>>

\* the next awaited call; after the last one, the response
Begin ==
  /\ inflight.pc = "stage"
  /\ inflight' = IF inflight.queue # <<>> THEN [inflight EXCEPT !.pc = "fetch", !.i = 0]
                 ELSE [inflight EXCEPT !.pc = "reply"]
  /\ UNCHANGED <<db, ledger, run, hist, today>>

\* One pass of the fetch of a call.  fetchHtml makes one request and returns
\* whatever the answer; fetchJson tests i < retries, makes a request, and
\* returns, sleeps before the next pass or goes to the next pass at once.
Attempt ==
  /\ inflight.pc = "fetch"
  /\ LET st == inflight.queue[1].stage
         entered == [inflight EXCEPT !.pc = "records", !.j = 0]
     IN inflight' =
          IF st.op = "detail" \/ ~(inflight.i < retries) THEN entered
          ELSE LET kind == responsesOf(st, inflight.world)[inflight.i + 1].kind
               IN CASE kind \in {"ok", "status"} -> entered
                    [] kind = "429" -> [inflight EXCEPT !.pc = "sleep"]
                    [] OTHER ->
                         IF inflight.i < retries - 1
                           THEN [inflight EXCEPT !.pc = "sleep"]
                         ELSE [inflight EXCEPT !.i = nextAttempt(@)]
  /\ UNCHANGED <<db, ledger, run, hist, today>>

\* the timer of a retry fires
Wake ==
  /\ inflight.pc = "sleep"
  /\ inflight' = [inflight EXCEPT !.pc = "fetch", !.i = nextAttempt(@),
                                  !.slept = TRUE]
  /\ UNCHANGED <<db, ledger, run, hist, today>>

\* the loop of the call passes one record
Record ==
  /\ inflight.pc = "records"
  /\ inflight.j < inflight.queue[1].n
  /\ inflight' = [inflight EXCEPT !.j = @ + 1]
  /\ UNCHANGED <<db, ledger, run, hist, today>>

\* the call returns, and the next one is awaited, or it throws, and the
\* exception goes to the catch of the handler
Finish ==
  /\ inflight.pc = "records"
  /\ inflight.j >= inflight.queue[1].n
  /\ inflight' = IF inflight.queue[1].threw
                   THEN [inflight EXCEPT !.pc = "reply", !.threw = TRUE]
                 ELSE [inflight EXCEPT !.pc = "stage", !.queue = Tail(@),
                                       !.i = 0, !.j = 0]
  /\ UNCHANGED <<db, ledger, run, hist, today>>

\* the response leaves; what the calls wrote is in the storage
Reply ==
  /\ inflight.pc = "reply"
  /\ inflight' = [inflight EXCEPT !.pc = "answered"]
  /\ db' = inflight.db
  /\ ledger' = inflight.ledger
  /\ hist' = [hist EXCEPT !.calls = inflight.calls]
  /\ run' = [Idle EXCEPT !.n = run.n + 1, !.op = "serve", !.arg = inflight.req]
  /\ UNCHANGED today

\* the steps of an invocation
Step ==
  \/ Dispatch
  \/ Begin
  \/ Attempt
  \/ Wake
  \/ Record
  \/ Finish
  \/ Reply

NextLive ==
  \/ Receive
  \/ Step

\* The runtime resumes an invocation whenever what it awaits has settled:
\* every request is answered or fails, every timer fires, every storage
\* statement returns.
SpecLive == InitLive /\ [][NextLive]_vars /\ WF_vars(Step)

\* parseNum on one text
MaxText == 3

NumChars == {"1", "5", ".", ",", "%", "-", " ", "x"}

NumTexts == UNION {{Tuple(t) : t \in [1..n -> NumChars]} : n \in 0..MaxText}

InitNum ==
  /\ db = EmptyDb
  /\ ledger = <<>>
  /\ today = 1
  /\ hist = [scraped |-> {}, calls |-> {}]
  /\ run \in {[Idle EXCEPT !.arg = v] : v \in NumTexts}
  /\ inflight = NoCalls

ParseNum ==
  /\ run.op = "init"
  /\ run' = [run EXCEPT !.n = @ + 1, !.op = "parseNum", !.ret = parseNum(run.arg)]
  /\ UNCHANGED <<db, ledger, hist, today, inflight>>

NextNum == ParseNum

SpecNum == InitNum /\ [][NextNum]_vars

\* the ensure operations called one after the other
MaxCalls == 3

EnsureNames == {NameA, NameACaps, NameB, NameBackslash}

EnsureTeam ==
  /\ run.n < MaxCalls
  /\ \E name \in {NameA, NameB}, env \in Reliable :
       \E c \in {NewCtx(env)} : \E r \in {ensureTeam(c, name, "na")} :
          /\ db' = r.c.db
          /\ hist' = [hist EXCEPT !.calls = r.c.calls]
          /\ run' = [Idle EXCEPT !.n = run.n + 1, !.op = "ensureTeam",
                                 !.arg = <<name, NoId>>, !.ret = r.id]
  /\ UNCHANGED <<ledger, today, inflight>>

\* teamId is null or the identity of a stored team
EnsurePlayer ==
  /\ run.n < MaxCalls
  /\ \E ign \in EnsureNames, teamId \in {NoId} \cup (1..Len(db.teams)), env \in Reliable :
       \E c \in {NewCtx(env)} : \E r \in {ensurePlayer(c, ign, teamId)} :
          /\ db' = r.c.db
          /\ hist' = [hist EXCEPT !.calls = r.c.calls]
          /\ run' = [Idle EXCEPT !.n = run.n + 1, !.op = "ensurePlayer",
                                 !.arg = <<ign, teamId>>, !.ret = r.id]
  /\ UNCHANGED <<ledger, today, inflight>>

NextEnsure ==
  \/ EnsureTeam
  \/ EnsurePlayer

SpecEnsure == Init /\ [][NextEnsure]_vars

\* Box scores: the results feed of two matches, then pages of one map
\* with six player rows, without team titles, with one score only, with
\* equal scores, with a first-kills cell that reads 0.
PlayerName(k) == <<"p", Digits[k + 1]>>

SixRows == Tuple([k \in 1..6 |-> Row(PlayerName(k), Jett, FullCells)])

NoFirstKillCells == [FullCells EXCEPT ![9] = <<"0">>]

SevenThirteen == <<<<"7">>, <<"1", "3">>>>

PageSix == Page(<<NameA, NameB>>, <<>>, <<>>, <<Block(<<"1">>, SevenThirteen, SixRows)>>)

PageSixNoTitles == Page(<<>>, <<>>, <<>>, <<Block(<<"1">>, SevenThirteen, SixRows)>>)

PageOneScore ==
  Page(<<NameA, NameB>>, <<>>, <<>>,
       <<Block(<<"1">>, <<<<"1", "3">>>>, <<Row(PlayerName(1), Jett, FullCells)>>)>>)

PageTied ==
  Page(<<NameA, NameB>>, <<>>, <<>>,
       <<Block(<<"1">>, <<<<"1", "2">>, <<"1", "2">>>>,
               <<Row(PlayerName(2), Jett, FullCells)>>)>>)

PageNoFirstKills ==
  Page(<<NameA, NameB>>, <<>>, <<>>,
       <<Block(<<"1">>, <<<<"1", "3">>, <<"7">>>>,
               <<Row(PlayerName(3), Jett, NoFirstKillCells)>>)>>)

BoxPages == {PageSix, PageSixNoTitles, PageOneScore, PageTied, PageNoFirstKills}

\* (external match identifier, slug, response to the page request)
BoxInputs == {<<vlrId, <<>>, Html(pg)>> : vlrId \in {<<"1">>, <<"2">>}, pg \in BoxPages}

BoxFeeds == {Served(Doc("segments", MatchFeedD))}

NextBox ==
  \/ IngestMatches(BoxFeeds, Reliable)
  \/ IngestMatchDetail(BoxInputs, Reliable)

SpecBox == Init /\ [][NextBox]_vars

\* map name resolution on one page: the navigation items that resolve some
\* of the identifiers 1 to MaxLabels, and up to MaxLabels in-section labels
MaxLabels == 3

NavSets == SUBSET (1..MaxLabels)

\* the navigation items of a set of identifiers, each labelled Bind
RECURSIVE NavOf(_, _)
NavOf(ids, k) ==
  IF k > MaxLabels THEN <<>>
  ELSE (IF k \in ids THEN <<NavItem(ToText(k), valid[1])>> ELSE <<>>) \o NavOf(ids, k + 1)

LabelTexts == {valid[2], valid[3], NameBlank}

LabelLists == UNION {{Tuple(t) : t \in [1..n -> LabelTexts]} : n \in 0..MaxLabels}

InitNames ==
  /\ db = EmptyDb
  /\ ledger = <<>>
  /\ today = 1
  /\ hist = [scraped |-> {}, calls |-> {}]
  /\ run \in {[Idle EXCEPT !.arg = <<NavOf(ids, 1), labels>>]
                : ids \in NavSets, labels \in LabelLists}
  /\ inflight = NoCalls

\* the two strategies of scrapeMatchPage, one after the other
ResolveNames ==
  /\ run.op = "init"
  /\ run' = [run EXCEPT !.n = @ + 1, !.op = "names",
                        !.res = labelNames(run.arg[2], navNames(run.arg[1], <<>>), 1)]
  /\ UNCHANGED <<db, ledger, hist, today, inflight>>

NextNames == ResolveNames

SpecNames == InitNames /\ [][NextNames]_vars

\* ---------------------------------------------------- agent roles alone
\* Agent names as a page may write them: a roster entry or another word, in
\* lower or upper case, alone or inside a longer word.
Rosters == duelists \cup initiators \cup controllers \cup sentinels

AgentAffixes == {<<>>, <<"x">>}

AgentWords == Rosters \cup {NameA, NameB, <<"k", "a", "y", "/", "o">>}

AgentNames ==
  {p \o w \o s : p \in AgentAffixes, s \in AgentAffixes,
                 w \in AgentWords \cup {UpperStr(v) : v \in AgentWords}}

InitRoles ==
  /\ db = EmptyDb
  /\ ledger = <<>>
  /\ today = 1
  /\ hist = [scraped |-> {}, calls |-> {}]
  /\ run \in {[Idle EXCEPT !.arg = v] : v \in AgentNames}
  /\ inflight = NoCalls

InferAgentRole ==
  /\ run.op = "init"
  /\ run' = [run EXCEPT !.n = @ + 1, !.op = "inferAgentRole",
                        !.res = inferAgentRole(run.arg)]
  /\ UNCHANGED <<db, ledger, hist, today, inflight>>

NextRoles == InferAgentRole

SpecRoles == InitRoles /\ [][NextRoles]_vars

\* ----------------------------------------------------- date ranges alone
\* parseDateRange (part_000:50-68).  A date is <<year, month, day>>; Date is
\* the engine's parser for texts that are not in the ISO format, as far as the
\* texts of a date range reach: words are separated by spaces and commas, a
\* word of digits is a number, a word beginning with the three letters of a
\* month names that month, any other word is ignored before the first number
\* and makes the text invalid after it.  The numbers are padded with 1 to three
\* and read as day and year beside a named month, as month, day and year
\* without one, the year coming first when the first number is no day of a
\* month; a year below 50 is of this century, one below 100 of the last.
\* Dates are read and written in UTC.
Months ==
  <<<<"j", "a", "n">>,
    <<"f", "e", "b">>,
    <<"m", "a", "r">>,
    <<"a", "p", "r">>,
    <<"m", "a", "y">>,
    <<"j", "u", "n">>,
    <<"j", "u", "l">>,
    <<"a", "u", "g">>,
    <<"s", "e", "p">>,
    <<"o", "c", "t">>,
    <<"n", "o", "v">>,
    <<"d", "e", "c">>>>

IsSeparator(ch) == ch \in {" ", ","}

\* the first word of s and what follows it
RECURSIVE WordOf(_)
WordOf(s) ==
  IF s = <<>> \/ IsSeparator(s[1]) THEN <<>> ELSE <<s[1]>> \o WordOf(Tail(s))

RECURSIVE Words(_)
Words(s) ==
  IF s = <<>> THEN <<>>
  ELSE IF IsSeparator(s[1]) THEN Words(Tail(s))
  ELSE <<WordOf(s)>> \o Words(SubSeq(s, Len(WordOf(s)) + 1, Len(s)))

IsNumberWord(w) == \A i \in 1..Len(w) : IsDigit(w[i])

MonthOf(w) ==
  IF Len(w) >= 3 /\ \E m \in 1..12 : Months[m] = LowerStr(SubSeq(w, 1, 3))
    THEN CHOOSE m \in 1..12 : Months[m] = LowerStr(SubSeq(w, 1, 3))
  ELSE 0

\* the words read so far: the numbers, the month named, and whether a word
\* made the text invalid
RECURSIVE readWords(_, _, _)
readWords(words, numbers, month) ==
  IF words = <<>> THEN [numbers |-> numbers, month |-> month, legal |-> TRUE]
  ELSE
    LET w == words[1]
    IN IF IsNumberWord(w)
         THEN IF Len(numbers) >= 3
                THEN [numbers |-> numbers, month |-> month, legal |-> FALSE]
              ELSE readWords(Tail(words), Append(numbers, DigitsValue(w)), month)
       ELSE IF MonthOf(w) # 0 THEN readWords(Tail(words), numbers, MonthOf(w))
       ELSE IF numbers = <<>> THEN readWords(Tail(words), numbers, month)
       ELSE [numbers |-> numbers, month |-> month, legal |-> FALSE]

IsDay(n) == n >= 1 /\ n <= 31

IsMonth(n) == n >= 1 /\ n <= 12

IsLeap(y) == (y % 4 = 0 /\ y % 100 # 0) \/ y % 400 = 0

DaysIn(y, m) ==
  IF m = 2 THEN (IF IsLeap(y) THEN 29 ELSE 28)
  ELSE IF m \in {4, 6, 9, 11} THEN 30 ELSE 31

\* a day past the end of its month is a day of the next month
MakeDay(y, m, d) ==
  IF d <= DaysIn(y, m) THEN <<y, m, d>>
  ELSE IF m = 12 THEN <<y + 1, 1, d - DaysIn(y, m)>>
  ELSE <<y, m + 1, d - DaysIn(y, m)>>

Century(y) == IF y <= 49 THEN y + 2000 ELSE IF y <= 99 THEN y + 1900 ELSE y

\* new Date(text): Null is the invalid date
Date(text) ==
  LET r == readWords(Words(text), <<>>, 0)
      comp(i) == IF i <= Len(r.numbers) THEN r.numbers[i] ELSE 1
      year == IF IsDay(comp(1)) THEN (IF r.month = 0 THEN comp(3) ELSE comp(2))
              ELSE comp(1)
      month == IF r.month # 0 THEN r.month
               ELSE IF IsDay(comp(1)) THEN comp(1) ELSE comp(2)
      day == IF r.month # 0 THEN (IF IsDay(comp(1)) THEN comp(1) ELSE comp(2))
             ELSE IF IsDay(comp(1)) THEN comp(2) ELSE comp(3)
  IN IF ~r.legal \/ r.numbers = <<>> THEN Null
     ELSE IF ~IsMonth(month) \/ ~IsDay(day) THEN Null
     ELSE <<MakeDay(Century(year), month, day)>>

Pad(n, width) ==
  LET t == ToText(n)
  IN [i \in 1..(width - Len(t)) |-> "0"] \o t

\* date.toISOString().split("T")[0]; the invalid date has no such text and
\* the call throws
toISOString(date) ==
  IF date = Null THEN [threw |-> TRUE, text |-> <<>>]
  ELSE [threw |-> FALSE,
        text |-> Pad(date[1][1], 4) \o <<"-">> \o Pad(date[1][2], 2)
                 \o <<"-">> \o Pad(date[1][3], 2)]

\* dates.split(sep)
RECURSIVE Split(_, _)
Split(s, sep) ==
  IF \E i \in 1..Len(s) : IsPrefix(sep, SubSeq(s, i, Len(s)))
    THEN LET i == Min({k \in 1..Len(s) : IsPrefix(sep, SubSeq(s, k, Len(s)))})
         IN <<SubSeq(s, 1, i - 1)>> \o Split(SubSeq(s, i + Len(sep), Len(s)), sep)
  ELSE <<s>>

\* dates.match(/(\d{4})/): the first four digits in a row
yearMatch(dates) ==
  LET at == {i \in 1..Len(dates) - 3 : \A k \in 0..3 : IsDigit(dates[i + k])}
  IN IF at = {} THEN Null ELSE <<SubSeq(dates, Min(at), Min(at) + 3)>>

NoDates(year) == [start |-> Null, end |-> Null, year |-> year, threw |-> FALSE]

\* a parseDateRange that builds each date in a try of its own (variant)
parseDateRangeEach(dates) ==
  LET year == IF yearMatch(dates) = Null THEN Null ELSE parseInt(yearMatch(dates)[1])
      parts == Split(dates, <<" ", "-", " ">>)
      stamp(part) == IF toISOString(Date(part)).threw THEN Null
                     ELSE <<toISOString(Date(part)).text>>
  IN IF Len(parts) # 2 THEN NoDates(year)
     ELSE [NoDates(year) EXCEPT !.start = stamp(Trim(parts[1])),
                                !.end = stamp(Trim(parts[2]))]

parseDateRange(dates) ==
  LET year == IF yearMatch(dates) = Null THEN Null ELSE parseInt(yearMatch(dates)[1])
      parts == Split(dates, <<" ", "-", " ">>)
  IN IF Len(parts) # 2 THEN NoDates(year)
     ELSE
       LET endPart == Trim(parts[2])
           startPart ==
             Trim(parts[1]) \o
               (IF Includes(endPart, <<",">>)
                  THEN <<",", " ">> \o (IF year = Null THEN <<"n", "u", "l", "l">>
                                        ELSE ToText(year[1]))
                ELSE <<>>)
           start == toISOString(Date(startPart))
           end == toISOString(Date(endPart))
       IN IF start.threw \/ end.threw THEN NoDates(year)
          ELSE [start |-> <<start.text>>, end |-> <<end.text>>, year |-> year,
                threw |-> FALSE]

\* the texts of a date, alone and in ranges
DateParts ==
  {<<"M", "a", "r", " ", "2", "5">>,
   <<"M", "a", "y", " ", "1", "9", ",", " ", "2", "0", "2", "4">>,
   <<"J", "u", "n", " ", "2", "0", "2", "4">>,
   <<"T", "B", "D">>,
   <<>>,
   <<"F", "e", "b", " ", "3", "0", ",", " ", "2", "0", "2", "3">>,
   <<"M", "a", "y", " ", "1", "9", ",", " ", "T", "B", "D">>,
   <<"2", "0", "2", "4">>,
   <<"D", "e", "c", " ", "3", "1", ",", " ", "1", "9", "9", "9", " ">>}

DateTexts ==
  DateParts
    \cup {a \o <<" ", "-", " ">> \o b : a \in DateParts, b \in DateParts}
    \cup {a \o <<" ", "-", " ">> \o a \o <<" ", "-", " ">> \o a : a \in DateParts}

InitDates ==
  /\ db = EmptyDb
  /\ ledger = <<>>
  /\ today = 1
  /\ hist = [scraped |-> {}, calls |-> {}]
  /\ run \in {[Idle EXCEPT !.arg = v] : v \in DateTexts}
  /\ inflight = NoCalls

ParseDateRange ==
  /\ run.op = "init"
  /\ run' = [run EXCEPT !.n = @ + 1, !.op = "parseDateRange",
                        !.res = parseDateRange(run.arg)]
  /\ UNCHANGED <<db, ledger, hist, today, inflight>>

NextDates == ParseDateRange

SpecDates == InitDates /\ [][NextDates]_vars

\* ------------------------------------------------------------ the client
\* invokeWithRetry (src/lib/vlr-api.ts:42-82).  supabase.functions.invoke
\* settles with data, settles with an error that carries a message, or
\* rejects; responses lists what the calls of one invocation meet, in order.
MAX_RETRIES == 2

RETRY_DELAY_MS == 1500

Data(body) == [kind |-> "data", text |-> body]

Failure(message) == [kind |-> "error", text |-> message]

Rejection(message) == [kind |-> "reject", text |-> message]

RequestFailed == <<"E", "d", "g", "e", " ", "f", "u", "n", "c", "t", "i", "o", "n", " ", "r", "e", "q", "u", "e", "s", "t", " ", "f", "a", "i", "l", "e", "d">>

\* error.message?.includes("400") || error.message?.includes("401")
IsClientError(message) ==
  Includes(message, <<"4", "0", "0">>) \/ Includes(message, <<"4", "0", "1">>)

Thrown(attempt, error, waits) ==
  [attempts |-> attempt, threw |-> TRUE, error |-> error, data |-> <<>>,
   waits |-> waits]

\* the for loop: every throw inside the try, the one for a client error
\* included, lands in the catch, which waits and continues while attempts
\* remain
RECURSIVE invokeLoop(_, _, _, _, _)
invokeLoop(responses, attempt, maxRetries, lastError, waits) ==
  IF attempt > maxRetries \/ attempt + 1 > Len(responses)
    THEN Thrown(attempt, lastError, waits)
  ELSE
    LET r == responses[attempt + 1]
        error == IF r.kind = "error" /\ r.text = <<>> THEN RequestFailed ELSE r.text
        wait == RETRY_DELAY_MS * (attempt + 1)
    IN IF r.kind = "data"
         THEN [attempts |-> attempt + 1, threw |-> FALSE, error |-> <<>>,
               data |-> r.text, waits |-> waits]
       ELSE
         LET retry == invokeLoop(responses, attempt + 1, maxRetries, error,
                                 Append(waits, wait))
             caught == IF attempt < maxRetries THEN retry
                       ELSE invokeLoop(responses, attempt + 1, maxRetries, error, waits)
         IN IF r.kind = "reject" THEN caught
            ELSE IF IsClientError(r.text) THEN caught
            ELSE IF attempt < maxRetries THEN retry
            ELSE caught

invokeWithRetry(responses, maxRetries) ==
  invokeLoop(responses, 0, maxRetries, <<"R", "e", "q", "u", "e", "s", "t", " ", "f", "a", "i", "l", "e", "d", " ", "a", "f", "t", "e", "r", " ", "r", "e", "t", "r", "i", "e", "s">>, <<>>)

\* what one call can meet
Outcomes ==
  {Data(<<"o", "k">>),
   Failure(<<"4", "0", "0">>),
   Failure(<<"4", "0", "1", " ", "U", "n", "a", "u", "t", "h", "o", "r", "i", "z", "e", "d">>),
   Failure(<<"5", "0", "0">>),
   Failure(<<>>),
   Rejection(<<"F", "a", "i", "l", "e", "d", " ", "t", "o", " ", "f", "e", "t", "c", "h">>)}

\* queryStats retries MAX_RETRIES times, triggerIngest once
RetryCounts == {1, MAX_RETRIES}

InitClient ==
  /\ db = EmptyDb
  /\ ledger = <<>>
  /\ today = 1
  /\ hist = [scraped |-> {}, calls |-> {}]
  /\ run \in {[Idle EXCEPT !.arg = <<Tuple(s), n>>] :
                s \in [1..(MAX_RETRIES + 1) -> Outcomes], n \in RetryCounts}
  /\ inflight = NoCalls

InvokeWithRetry ==
  /\ run.op = "init"
  /\ run' = [run EXCEPT !.n = @ + 1, !.op = "invokeWithRetry",
                        !.res = invokeWithRetry(run.arg[1], run.arg[2])]
  /\ UNCHANGED <<db, ledger, hist, today, inflight>>

NextClient == InvokeWithRetry

SpecClient == InitClient /\ [][NextClient]_vars

\* ----------------------------------------------------- events feed alone
\* Event titles of each tier inferTier tells apart and a blank title, one or
\* two to a feed.
TierTitles == {champions, masters, challengers, ascension, NameA, NameBlank}

TierFeeds ==
  {<<EventSeg(t, "na", FALSE)>> : t \in TierTitles}
    \cup {<<EventSeg(t, "na", FALSE), EventSeg(u, "emea", FALSE)>> :
            t \in TierTitles, u \in TierTitles}

TierInputs ==
  {<<Served(Doc("segments", f)), status>> :
     f \in TierFeeds, status \in {"completed", "upcoming"}}

NextEvents == IngestEvents(TierInputs, Reliable)

SpecEvents == Init /\ [][NextEvents]_vars

\* ------------------------------------------------- batch mode, repeatedly
\* One matches request stores the two matches of the results feed; every
\* later request is a batch-detail request of one fixed limit.  The page of
\* match 2 scrapes; the page of match 1 is not served, has no maps, or
\* scrapes as well.  The requests are counted up to MaxBatch.
MaxBatch == 4

BatchLimits == {1, 2}

PagesWith(first) ==
  [vlrId \in {<<"1">>, <<"2">>} |-> IF vlrId = <<"1">> THEN first ELSE Html(PagePartial)]

BatchWorlds ==
  {[WorldPartial EXCEPT !.matches = feed, !.pages = PagesWith(first)] :
     feed \in {Served(Doc("segments", MatchFeedD)), Retried(Doc("segments", MatchFeedD))},
     first \in {NoPage, Html(PageNoMaps), Html(PagePartial)}}

BatchRequest(limit) == Post("batch-detail", "", <<>>, <<limit>>)

\* a request arrives: the matches request first, then the batch requests
ReceiveBatch ==
  /\ inflight.pc \in {"idle", "answered"}
  /\ run.n < MaxBatch
  /\ \E world \in IF run.n = 0 THEN BatchWorlds ELSE {inflight.world},
        req \in IF run.n = 0 THEN {Post("matches", "", <<>>, Null)}
                ELSE IF run.n = 1 THEN {BatchRequest(limit) : limit \in BatchLimits}
                ELSE {run.arg},
        env \in Reliable :
       \E c \in {NewCtx(env)} : \E h \in {handler(c, req, world)} :
         inflight' = Serving("received", req, world, h)
  /\ UNCHANGED <<db, ledger, run, hist, today>>

NextBatch ==
  \/ ReceiveBatch
  \/ Step

\* the runtime resumes an invocation whenever what it awaits has settled
SpecBatch == InitLive /\ [][NextBatch]_vars /\ WF_vars(Step)

\* ------------------------------------------------------------ properties
IngestOps == {"stats", "matches", "events", "rankings", "detail"}

\* the step is one invocation of operation op
Ran(op) == run'.n = run.n + 1 /\ run'.op = op

Last(seq) == seq[Len(seq)]

\* the ledger entry the last invocation wrote
Logged == Last(ledger)

Rows(t) == 1..Len(db[t])

\* C1: every invocation of an ingestion operation (ingestStats,
\* ingestMatches, ingestEvents, ingestRankings, ingestMatchDetail) appends
\* exactly one run-ledger entry, on every path: never zero, never two.
C1_OneLedgerEntryPerRun ==
  [][(run'.n = run.n + 1 /\ run'.op \in IngestOps)
       => Len(ledger') = Len(ledger) + 1]_vars

\* C1, restricted to the invocations that return: each appends exactly one
\* entry and leaves the earlier entries as they were.
C1_ReturningRunLogsOnce ==
  [][(run'.n = run.n + 1 /\ run'.op \in IngestOps /\ ~run'.threw)
       => /\ Len(ledger') = Len(ledger) + 1
          /\ SubSeq(ledger', 1, Len(ledger)) = ledger]_vars

\* an adapter was given a document whose segments field is not iterable:
\* it threw and the ledger holds no entry for the invocation
C1_ThrewWithoutEntry ==
  /\ run.op \in {"stats", "matches", "events"}
  /\ run.threw
  /\ run.json = NotArray
  /\ Len(ledger) < run.n

\* the external identifiers a results feed carries
FeedIds(segments) ==
  {extractVlrId(segments[i].match_page) :
     i \in {k \in 1..Len(segments) : ~segments[k].isNull}} \ {Null}

MatchRows(d, vlrId) == {k \in 1..Len(d.matches) : d.matches[k].vlr_id = vlrId}

\* C2: running ingestMatches again on an unchanged results feed (storage
\* accepting every write) leaves exactly one matches row for each external
\* identifier of the feed, inserts no row on a run after the first and
\* returns the same record count as the run before.
C2_MatchesIdempotent ==
  [][(/\ Ran("matches") /\ run.op = "matches"
      /\ run'.json = run.json /\ run.json.shape = "segments"
      /\ ~run.rejected /\ ~run'.rejected)
       => /\ Len(db'.matches) = Len(db.matches)
          /\ run'.ret = run.ret
          /\ \A id \in FeedIds(run.json.segments) :
               Cardinality(MatchRows(db', id)) = 1]_vars

\* the second of two runs on one feed that returned another count than the
\* first, with every write accepted by the storage
C2_CountChanged ==
  /\ run.n = 2 /\ run.op = "matches" /\ ~run.rejected
  /\ Len(ledger) = 2
  /\ ledger[1].endpoint = ledger[2].endpoint
  /\ ledger[1].status = "success"
  /\ ledger[1].records_processed # ledger[2].records_processed
  /\ run.json = Doc("segments", MatchFeedB)
  /\ Len(db.matches) = 1

\* C3: after any sequence of ingestMatchDetail runs there is at most one
\* Map row per (match, map number) and at most one PlayerMapStat row per
\* (map, player).
C3_OneMapOneStat ==
  /\ \A i, j \in Rows("maps") :
       (/\ db.maps[i].match_id = db.maps[j].match_id
        /\ db.maps[i].map_number = db.maps[j].map_number) => i = j
  /\ \A i, j \in Rows("player_map_stats") :
       (/\ db.player_map_stats[i].map_id = db.player_map_stats[j].map_id
        /\ db.player_map_stats[i].player_id = db.player_map_stats[j].player_id)
         => i = j

\* a page was scraped again: its maps were found and stat rows were present
C3_Rescraped ==
  /\ run.n = 2 /\ run.op = "detail"
  /\ Logged.status = "success"
  /\ run.present > 0
  /\ Len(db.maps) >= 2
  /\ Len(db.player_map_stats) >= 2

\* C4: re-running ingestMatchDetail for a match already scraped from the
\* same page inserts no PlayerMapStat row, and the count it returns and logs
\* is the number of player rows it found already present.
C4_RescrapeInsertsNothing ==
  [][(/\ Ran("detail")
      /\ <<run'.arg[1], run'.res>> \in hist.scraped
      /\ ~run'.rejected)
       => /\ Len(db'.player_map_stats) = Len(db.player_map_stats)
          /\ run'.ret = run'.present
          /\ Last(ledger').records_processed = run'.present]_vars

\* a re-scrape of the same page, every write accepted, that added stat rows
C4_RescrapeInserted ==
  /\ run.n = 2 /\ run.op = "detail" /\ ~run.rejected
  /\ <<run.arg[1], run.res>> \in hist.scraped
  /\ Len(ledger) = 2
  /\ ledger[1].endpoint = ledger[2].endpoint
  /\ ledger[1].status = "success"
  /\ run.ret > run.present

NameField(t) == IF t = "players" THEN "ign" ELSE "name"

\* C5: no two rows of one entity type have names equal ignoring letter
\* case, and two ensure calls whose names are equal ignoring case and
\* surrounding whitespace return the same identity.
C5_OneIdentityPerName ==
  /\ \A t \in {"teams", "players", "events", "agents"} :
       \A i, j \in Rows(t) :
         LowerStr(db[t][i][NameField(t)]) = LowerStr(db[t][j][NameField(t)])
           => i = j
  /\ \A x, y \in hist.calls : (x[1] = y[1] /\ x[2] = y[2]) => x[3] = y[3]

\* two player rows carry the same name
C5_TwoRowsOneName ==
  \E i, j \in Rows("players") : i # j /\ db.players[i].ign = db.players[j].ign

\* what the scraper extracts from the page of the last detail run
Scraped == scrapeMatchPage(run.res.body)

C7_ZeroMapsWritesNothing ==
  [][(/\ Ran("detail") /\ run'.res.kind = "ok"
      /\ Len(scrapeMatchPage(run'.res.body).maps) = 0)
       => /\ run'.ret = 0
          /\ db' = db
          /\ Len(ledger') = Len(ledger) + 1
          /\ SubSeq(ledger', 1, Len(ledger)) = ledger
          /\ Last(ledger').status = "error"
          /\ Last(ledger').records_processed = 0
          /\ Last(ledger').error_message # "null"]_vars

\* a page without map sections was scraped over a storage that holds rows
C7_ZeroMapsPage ==
  /\ run.op = "detail" /\ run.res = Html(PageNoMaps)
  /\ Len(db.matches) > 0
  /\ Logged.error_message = "No map data extracted from page"

\* the visits of a feed of n segments, each once and in order
SegVisits(n) == Tuple([i \in 1..n |-> <<i, 0>>])

\* the visits of a page's maps, each once and in order, each followed by the
\* visits of its player rows unless the map is in skipped
RECURSIVE PageVisits(_, _, _)
PageVisits(maps, mi, skipped) ==
  IF mi > Len(maps) THEN <<>>
  ELSE <<<<mi, 0>>>>
       \o (IF mi \in skipped THEN <<>>
           ELSE Tuple([pi \in 1..Len(maps[mi].players) |-> <<mi, pi>>]))
       \o PageVisits(maps, mi + 1, skipped)

\* the last run got as far as its loop over the records
ReachedLoop ==
  /\ run.op \in IngestOps
  /\ ~run.threw
  /\ Logged.status = "success"

\* C8 as stated: a failure on one record never prevents the remaining
\* records from being processed: every segment of the feed and every player
\* row of the page is visited exactly once.
C8_EveryRecordVisited ==
  ReachedLoop =>
    IF run.op = "detail" THEN run.visited = PageVisits(Scraped.maps, 1, {})
    ELSE run.visited = SegVisits(Len(run.json.segments))

\* C8, amended: every segment of the feed and every map of the page is
\* visited exactly once, whatever failed on the records before it; the
\* player rows of a map are visited exactly once each when the map was
\* reconciled and not at all when its reconciliation returned no identity,
\* which happens only when the storage rejects the map insert.
C8_RecordsVisitedUnlessMapFails ==
  ReachedLoop =>
    IF run.op = "detail"
      THEN \E skipped \in SUBSET (1..Len(Scraped.maps)) :
             /\ run.visited = PageVisits(Scraped.maps, 1, skipped)
             /\ skipped # {} => run.rejected
    ELSE run.visited = SegVisits(Len(run.json.segments))

\* the storage rejected the insert of a page's first map: its player rows
\* were skipped, the two later maps and their rows were visited
C8_MapFailedRestVisited ==
  /\ run.op = "detail" /\ ReachedLoop /\ run.rejected
  /\ Len(Scraped.maps) = 3
  /\ run.visited = PageVisits(Scraped.maps, 1, {1})

Transient == {"429", "neterr", "badjson"}

\* C9 as stated: fetchJson issues at most 3 requests, a further request only
\* after a 429 response or a network error, returns the document at the
\* first successful response, returns absent at once on another non-success
\* status and absent after the third failed attempt.
C9_RetryOnlyAfter429OrNetworkError ==
  run.op = "fetch" =>
    LET k == run.fetch.requests
        resps == run.arg
    IN /\ k \in 1..3
       /\ \A i \in 1..(k - 1) : resps[i].kind \in {"429", "neterr"}
       /\ resps[k].kind \in {"ok", "badjson"} =>
            run.fetch.returned = "doc" /\ run.json = resps[k].doc
       /\ resps[k].kind = "status" =>
            run.fetch.returned = "status" /\ run.json = NoDoc
       /\ resps[k].kind \in {"429", "neterr"} =>
            k = 3 /\ run.fetch.returned = "exhausted" /\ run.json = NoDoc

\* C9, amended: fetchJson issues at most 3 requests, in order; a further
\* request only after a 429 response, a network error or a 2xx response
\* whose body does not parse; it returns the document of the first 2xx
\* response whose body parses, absent at once on another non-success status,
\* and absent when the third attempt fails too.
C9_FetchJsonRetries ==
  run.op = "fetch" =>
    LET k == run.fetch.requests
        resps == run.arg
    IN /\ k \in 1..3
       /\ run.fetch.kinds = Tuple([i \in 1..k |-> resps[i].kind])
       /\ \A i \in 1..(k - 1) : resps[i].kind \in Transient
       /\ resps[k].kind = "ok" =>
            run.fetch.returned = "doc" /\ run.json = resps[k].doc
       /\ resps[k].kind = "status" =>
            run.fetch.returned = "status" /\ run.json = NoDoc
       /\ resps[k].kind \in Transient =>
            k = 3 /\ run.fetch.returned = "exhausted" /\ run.json = NoDoc

\* a call that was rate-limited, then got a body that does not parse, then
\* the document
C9_ThirdAttemptServed ==
  /\ run.op = "fetch"
  /\ run.fetch.kinds = <<"429", "badjson", "ok">>
  /\ run.fetch.returned = "doc"
  /\ run.json = DocX

KeyOf(t) ==
  IF t = "rankings" THEN {"team_id", "region", "snapshot_date"}
  ELSE {"player_id", "region", "timespan", "snapshot_date"}

SameKey(a, b, key) == \A k \in key : a[k] = b[k]

\* the last row the last run upserted under the key of its u-th upsert
LatestUpsert(u) ==
  run.ups[Max({v \in 1..Len(run.ups) :
                 /\ run.ups[v][1] = run.ups[u][1]
                 /\ SameKey(run.ups[v][2], run.ups[u][2], KeyOf(run.ups[u][1]))})][2]

\* C10: after any number of ingestStats and ingestRankings runs there is at
\* most one player_stats_aggregate row per (player, region, timespan,
\* snapshot date) and at most one rankings row per (team, region, snapshot
\* date), and the row of a key the last run stored holds the values that run
\* stored last (as the column types keep them).
C10_OneRowPerKeyLatestValues ==
  /\ \A t \in {"player_stats_aggregate", "rankings"} :
       \A i, j \in Rows(t) : SameKey(db[t][i], db[t][j], KeyOf(t)) => i = j
  /\ \A u \in 1..Len(run.ups) :
       \E i \in Rows(run.ups[u][1]) :
         db[run.ups[u][1]][i] = Coerce(run.ups[u][1], LatestUpsert(u))

\* a second rankings run gave a stored key new values: the row of team 1,
\* ranked by the first run, now holds the rank the second run gave it
C10_Overwritten ==
  /\ run.n = 2 /\ run.op = "rankings"
  /\ Len(ledger) = 2
  /\ ledger[1].endpoint = ledger[2].endpoint
  /\ ledger[1].records_processed = 2
  /\ Len(run.ups) = 2
  /\ Len(db.rankings) = 2
  /\ \E i \in Rows("rankings") :
       db.rankings[i].team_id = 1 /\ db.rankings[i].rank = 7

\* the segments all carry an organisation and a player, no name is empty and
\* no two segments share an organisation or a player
DistinctNames(segs) ==
  /\ \A i \in 1..Len(segs) :
       ~segs[i].isNull /\ segs[i].org # <<>> /\ segs[i].player # <<>>
  /\ \A i, j \in 1..Len(segs) :
       i # j => segs[i].org # segs[j].org /\ segs[i].player # segs[j].player

\* C11 as stated: ingestStats run from empty storage on a feed of n segments
\* with pairwise distinct non-empty organisation names and pairwise distinct
\* non-empty player names, every write accepted, leaves n teams, n players
\* and n player_stats_aggregate rows, returns n and appends one success
\* entry with records_processed = n.
C11_DistinctSegmentsMakeDistinctRows ==
  [][(/\ run.n = 0
      /\ run'.op = "stats" /\ ~run'.threw /\ ~run'.rejected
      /\ run'.json.shape = "segments"
      /\ DistinctNames(run'.json.segments))
     => LET n == Len(run'.json.segments)
        IN /\ Len(db'.teams) = n
           /\ Len(db'.players) = n
           /\ Len(db'.player_stats_aggregate) = n
           /\ run'.ret = n
           /\ Len(ledger') = 1
           /\ ledger'[1].status = "success"
           /\ ledger'[1].records_processed = n]_vars

\* the first run ingested two segments of organisations "a" and "_" and
\* returned 2 with one team stored
C11_TwoOrganisationsOneTeam ==
  /\ run.n = 1 /\ run.op = "stats" /\ ~run.rejected
  /\ run.json = Doc("segments", StatsFeedC)
  /\ run.ret = 2
  /\ Len(db.teams) = 1
  /\ Len(db.players) = 2

\* the number the scraper reads from the captured cell of index k
CellValue(k) == IF k + 1 <= Len(run.arg) THEN parseNum(run.arg[k + 1]) ELSE Null

\* C12 as stated: from a row of 9 captured cells the scraper takes the combat
\* score from index 0 and kills, deaths, assists from indexes 1, 2, 3; from
\* a row of 10 captured cells it takes the combat score from index 1 and
\* kills, deaths, assists from indexes 2, 3, 4.
C12_NineCellsShiftByOne ==
  run.op = "scrape" =>
    /\ Len(run.arg) = 9 =>
         /\ run.res.acs = CellValue(0)
         /\ run.res.kills = CellValue(1)
         /\ run.res.deaths = CellValue(2)
         /\ run.res.assists = CellValue(3)
    /\ Len(run.arg) = 10 =>
         /\ run.res.acs = CellValue(1)
         /\ run.res.kills = CellValue(2)
         /\ run.res.deaths = CellValue(3)
         /\ run.res.assists = CellValue(4)

\* a row of 9 numeric cells read with the mapping of a row of 10: the
\* combat score is the cell of index 1, kills, deaths and assists are the
\* cells of indexes 2, 3, 4
C12_NineCellsReadAsTen ==
  /\ run.op = "scrape"
  /\ Len(run.arg) = 9
  /\ \A k \in 0..8 : CellValue(k) = <<k * Scale>>
  /\ run.res.rating = <<0>>
  /\ run.res.acs = <<1 * Scale>>
  /\ run.res.kills = <<2 * Scale>>
  /\ run.res.deaths = <<3 * Scale>>
  /\ run.res.assists = <<4 * Scale>>

\* a scraped player row of which kills, deaths or assists was not captured
MissingStat(p) == Null \in {p.kills, p.deaths, p.assists}

\* the scraped player rows that carry a name
NamedRows ==
  {<<mi, pi>> \in (1..Len(Scraped.maps)) \X (1..5) :
     /\ pi <= Len(Scraped.maps[mi].players)
     /\ Scraped.maps[mi].players[pi].playerIgn # <<>>}

\* the player_map_stats rows stored for scraped row pi of scraped map mi of
\* the match the last run was about
StatRowsOf(mi, pi) ==
  {k \in Rows("player_map_stats") :
     LET s == db.player_map_stats[k]
         m == db.maps[s.map_id]
     IN /\ db.matches[m.match_id].vlr_id = run.arg[1]
        /\ m.map_number = Scraped.maps[mi].mapNumber
        /\ LowerStr(db.players[s.player_id].ign)
             = LowerStr(Scraped.maps[mi].players[pi].playerIgn)}

\* C13 as stated: a scraped player row in which kills, deaths or assists is
\* missing is still stored by ingestMatchDetail as a player_map_stats row,
\* the missing fields absent, and is counted (the storage accepting every
\* write it is not bound to refuse).
C13_PartialRowPersisted ==
  (run.op = "detail" /\ ReachedLoop /\ ~run.rejected) =>
    /\ \A r \in NamedRows :
         MissingStat(Scraped.maps[r[1]].players[r[2]]) =>
           \E k \in StatRowsOf(r[1], r[2]) :
             /\ db.player_map_stats[k].kills = Rounded(Scraped.maps[r[1]].players[r[2]].kills)
             /\ db.player_map_stats[k].acs = Scraped.maps[r[1]].players[r[2]].acs
    /\ (\E r \in NamedRows : MissingStat(Scraped.maps[r[1]].players[r[2]]))
         => run.ret = Cardinality(NamedRows)

\* the page with a full row and a row without kills, deaths and assists was
\* ingested, every write attempted: one row was counted, the team and the
\* player of the partial row exist, its stat row does not
C13_PartialRowRefused ==
  /\ run.op = "detail" /\ ReachedLoop /\ ~run.rejected
  /\ run.res = Html(PagePartial)
  /\ run.ret = 1 /\ run.dup = 1
  /\ Logged.records_processed = 1
  /\ StatRowsOf(1, 1) # {}
  /\ StatRowsOf(1, 2) = {}
  /\ \E i \in Rows("players") : db.players[i].ign = NameB

\* the label the scraper resolves for the game block of number n of page pg
LabelOf(pg, n) ==
  LET names == labelNames(pg.labels, navNames(pg.nav, <<>>), 1)
      k == Min({b \in 1..Len(pg.blocks) : parseInt(pg.blocks[b].gameId)[1] = n})
      gameId == pg.blocks[k].gameId
  IN IF HasName(names, gameId) THEN NameOf(names, gameId) ELSE MapPrefix \o gameId

EqualIgnoringCase(a, b) ==
  /\ Len(a) = Len(b)
  /\ \A k \in 1..Len(a) : Lower(a[k]) = Lower(b[k])

\* the vocabulary entry a label stands for, Bind when it stands for none
VocabularyEntry(label) ==
  IF \E i \in 1..Len(valid) : EqualIgnoringCase(valid[i], label)
    THEN valid[CHOOSE i \in 1..Len(valid) : EqualIgnoringCase(valid[i], label)]
  ELSE valid[1]

\* C14: every maps row has a map name of the vocabulary; a row that
\* ingestMatchDetail inserts holds the vocabulary entry that equals the
\* label scraped for its game ignoring case, and Bind when no entry does
\* (the placeholder "Map {identifier}" included).
C14_MapNameInVocabulary ==
  [][/\ \A k \in 1..Len(db'.maps) :
          \E i \in 1..Len(valid) : db'.maps[k].map_name = valid[i]
     /\ run'.op = "detail" =>
          \A k \in (Len(db.maps) + 1)..Len(db'.maps) :
            db'.maps[k].map_name
              = VocabularyEntry(LabelOf(run'.res.body, db'.maps[k].map_number))]_vars

\* a page labelled "hAVEN" was scraped and its map is stored as Haven; a
\* map whose game has no label is stored as Bind
C14_MixedCaseAndPlaceholder ==
  /\ run.op = "detail"
  /\ run.res = Html(PagePartial)
  /\ LabelOf(PagePartial, 1) = HavenMixed
  /\ \E k \in Rows("maps") :
       /\ db.matches[db.maps[k].match_id].vlr_id = run.arg[1]
       /\ db.maps[k].map_name = valid[2]
  /\ LabelOf(PageB, 2) = MapPrefix \o <<"2">>
  /\ \E k \in Rows("maps") :
       /\ db.matches[db.maps[k].match_id].vlr_id = <<"2">>
       /\ db.maps[k].map_number = 2
       /\ db.maps[k].map_name = valid[1]

\* the last request was answered by a full run
FullRun == run.op = "serve" /\ run.out.ran = "full"

\* the stages the last request called, in the order of the calls
Called ==
  LET calls == SelectSeq(run.out.trace, LAMBDA e : e.at = "call")
  IN Tuple([k \in 1..Len(calls) |-> calls[k].stage])

\* what a stage is: its operation and the status or region it is about
Kind(st) ==
  <<st.op, IF st.op = "stats" THEN st.arg[1] ELSE IF st.op = "detail" THEN "" ELSE st.arg>>

\* the k-th stage of the feed part of a full run over the regions rs
FeedKind(k, rs) ==
  IF k = 1 THEN <<"events", "completed">>
  ELSE IF k = 2 THEN <<"events", "upcoming">>
  ELSE IF k = 3 THEN <<"matches", "">>
  ELSE <<IF k % 2 = 0 THEN "stats" ELSE "rankings", rs[(k - 2) \div 2]>>

\* the first element of the endpoint each operation logs
Endpoint(op) ==
  CASE op = "events" -> <<"/events">>
    [] op = "matches" -> <<"/match?q=results">>
    [] op = "stats" -> <<"/stats">>
    [] op = "rankings" -> <<"/rankings">>
    [] op = "detail" -> <<"/">>

\* the Match row of the external identifier a detail stage is about
MatchOf(st) == CHOOSE i \in Rows("matches") : db.matches[i].vlr_id = st.arg[1]

\* C15: a full run calls its stages one after another in the order
\* completed events, upcoming events, match results, then for each region
\* stats followed by rankings, then the detail pages of the most recent
\* matches, latest first; each stage is called in the state in which the
\* previous one returned, and each has appended its ledger entry when it
\* returns.  (A run ends at a stage that throws.)
C15_StagesInOrder ==
  FullRun =>
    LET trace == run.out.trace
        feeds == 3 + 2 * Len(keyRegions)
    IN /\ \A i \in 1..Len(trace) :
            /\ trace[i].at = IF i % 2 = 1 THEN "call" ELSE "return"
            /\ i % 2 = 0 =>
                 /\ trace[i].stage = trace[i - 1].stage
                 /\ trace[i].ledger = trace[i - 1].ledger + 1
                 /\ IsPrefix(Endpoint(trace[i].stage.op),
                             IF trace[i].stage.op = "detail"
                               THEN ledger[trace[i].ledger].endpoint
                             ELSE <<ledger[trace[i].ledger].endpoint[1]>>)
            /\ (i % 2 = 1 /\ i > 1) =>
                 /\ trace[i].ledger = trace[i - 1].ledger
                 /\ trace[i].w = trace[i - 1].w
       /\ trace # <<>> /\ trace[1].w = 0
       /\ \A k \in 1..Len(Called) :
            IF k <= feeds THEN Kind(Called[k]) = FeedKind(k, keyRegions)
            ELSE /\ Called[k].op = "detail"
                 /\ \A j \in (feeds + 1)..(k - 1) :
                      /\ Called[j].arg[1] # Called[k].arg[1]
                      /\ db.matches[MatchOf(Called[j])].match_date
                           >= db.matches[MatchOf(Called[k])].match_date
       /\ IF run.threw THEN Len(trace) % 2 = 1
          ELSE /\ Len(trace) % 2 = 0
               /\ Len(Called) = feeds + Min({Len(db.matches), recentLimit})

\* a full run against servers that all answer: fifteen feed stages and the
\* pages of the two matches of the results feed, all returned
C15_FullRunCompleted ==
  /\ FullRun /\ ~run.threw
  /\ run.out.status = 200
  /\ Len(Called) = 17
  /\ Called[16].op = "detail" /\ Called[17].op = "detail"
  /\ Len(ledger) = 17

\* the k-th stage that returned failed entirely: its ledger entry is an
\* error entry (no document, no segments field, no page, no maps)
FailedEntirely(k) == ledger[run.out.trace[2 * k].ledger].status = "error"

\* every stage of the full run was called and has returned
AllStagesExecuted ==
  /\ ~run.threw
  /\ Len(Called) = 3 + 2 * Len(keyRegions) + Min({Len(db.matches), recentLimit})
  /\ Len(run.out.trace) = 2 * Len(Called)
  /\ Len(run.out.results) = Len(Called)

\* C16 as stated: in a full run a stage that fails entirely contributes a
\* record count of 0 to the summary and every later stage is still executed.
C16_FailedStageStopsNothing ==
  FullRun =>
    \A k \in 1..Len(run.out.results) :
      FailedEntirely(k) => run.out.results[k][2] = 0 /\ AllStagesExecuted

\* a full run whose events stages failed entirely and whose results stage
\* threw: the request was answered 500 after three calls, no stats,
\* rankings or detail stage was called
C16_LaterStagesNotExecuted ==
  /\ FullRun /\ run.threw
  /\ run.out.status = 500
  /\ FailedEntirely(1) /\ FailedEntirely(2)
  /\ Len(Called) = 3
  /\ Called[3].op = "matches"
  /\ Len(run.out.results) = 2

\* the detail calls a trace holds
Scrapes(trace) == SelectSeq(trace, LAMBDA e : e.at = "call" /\ e.stage.op = "detail")

\* the matches that carry an external identifier and have no maps row
Unscraped ==
  {i \in Rows("matches") :
     /\ db.matches[i].vlr_id # Null
     /\ \A k \in Rows("maps") : db.maps[k].match_id # i}

\* C17 as stated: a batch run scrapes only matches that carry an external
\* identifier and had no maps row when the run began, each at most once,
\* leaves none of them out while it is below the limit, and scrapes at most
\* the limit the caller supplied.
C17_BatchScrapesUpToLimit ==
  [][(run'.op = "serve" /\ run'.out.ran = "batch-detail") =>
       LET scrapes == Scrapes(run'.out.trace)
           limit == run'.arg.body.limit
       IN /\ \A k \in 1..Len(scrapes) :
               \E i \in Unscraped : db.matches[i].vlr_id = scrapes[k].stage.arg[1]
          /\ \A j, k \in 1..Len(scrapes) :
               scrapes[j].stage.arg[1] = scrapes[k].stage.arg[1] => j = k
          /\ limit # Null =>
               /\ Len(scrapes) <= limit[1]
               /\ Len(scrapes) = Min({limit[1], Cardinality(Unscraped)})]_vars

\* a batch request with limit 0 scraped the two matches that had no maps
C17_LimitZeroScrapesTwo ==
  /\ run.op = "serve" /\ run.out.ran = "batch-detail"
  /\ run.arg.body.limit = <<0>>
  /\ Len(run.out.unscraped) = 2
  /\ Len(run.out.picked) = 2
  /\ Len(Scrapes(run.out.trace)) = 2
  /\ run.out.status = 200

\* the regions for which the last request called the operation op
RegionsOf(op) == {Kind(Called[k])[2] : k \in {j \in 1..Len(Called) : Called[j].op = op}}

\* C18 as stated: a full run that runs to its end ingests aggregate stats
\* and rankings for every region of REGIONS.
C18_FullRunCoversRegions ==
  (FullRun /\ ~run.threw) =>
    \A k \in 1..Len(REGIONS) :
      REGIONS[k] \in RegionsOf("stats") /\ REGIONS[k] \in RegionsOf("rankings")

\* a full run that ran to its end called stats and rankings for six of the
\* twelve regions; la, la-s, la-n, oce, mn and gc were never requested
C18_SixRegionsSkipped ==
  /\ FullRun /\ ~run.threw
  /\ run.out.status = 200
  /\ RegionsOf("stats") = {"na", "eu", "ap", "br", "kr", "cn"}
  /\ RegionsOf("rankings") = RegionsOf("stats")
  /\ {REGIONS[k] : k \in 1..Len(REGIONS)} \ RegionsOf("stats")
       = {"la", "la-s", "la-n", "oce", "mn", "gc"}

\* the mode a request asks for
Asked(req) ==
  IF req.method = "POST" /\ req.body.mode # "" THEN req.body.mode ELSE "full"

Modes ==
  {"stats", "matches", "events", "rankings", "match-detail", "batch-detail", "full"}

\* the operations the ingestion of a mode calls
OpsOf(mode) ==
  CASE mode = "full" -> {"events", "matches", "stats", "rankings", "detail"}
    [] mode \in {"match-detail", "batch-detail"} -> {"detail"}
    [] OTHER -> {mode}

\* the step answered a request without a fetch, a write or a ledger entry
NoEffect ==
  /\ run'.out.ran = "none"
  /\ run'.out.trace = <<>> /\ run'.out.requests = 0
  /\ run'.w = 0
  /\ db' = db /\ ledger' = ledger

\* the step ran the ingestion of mode and of no other
RanOnly(mode) ==
  /\ run'.out.ran = mode
  /\ run'.out.status = IF run'.threw THEN 500 ELSE 200
  /\ \A i \in 1..Len(run'.out.trace) : run'.out.trace[i].stage.op \in OpsOf(mode)
  /\ mode \notin {"full", "batch-detail"} =>
       Len(SelectSeq(run'.out.trace, LAMBDA e : e.at = "call")) = 1

\* the request names no known mode, or asks for a match page without an
\* external match identifier
Malformed(req) ==
  \/ Asked(req) \notin Modes
  \/ Asked(req) = "match-detail" /\ req.body.vlrId = <<>>

Overlapped ==
  /\ Len(inflight.calls) = 2
  /\ inflight.calls[1].pc = "done" /\ inflight.calls[2].pc = "done"
  /\ Trim(inflight.calls[1].name) # <<>>
  /\ LowerStr(Trim(inflight.calls[1].name)) = LowerStr(Trim(inflight.calls[2].name))
  /\ Len(inflight.order) = 4
  /\ inflight.order[1][1] = "select" /\ inflight.order[2][1] = "select"

\* the rows stored under the name of the first invocation, ignoring case
RowsOfName ==
  LET table == inflight.calls[1].table
  IN {i \in Rows(table) :
        LowerStr(db[table][i][NameColumn(table)])
          = LowerStr(Trim(inflight.calls[1].name))}

\* C20: the check-then-create of an ensure operation is not atomic.  When
\* two overlapping invocations call it for the same name ignoring case and
\* both selects are served before either insert, both insert: afterwards
\* two rows carry the name, each invocation holding its own, unless the
\* table is teams and the two names are equal as written, where UNIQUE(name)
\* refuses the second insert and that invocation gets no identity.
C20_OverlapDuplicates ==
  Overlapped =>
    IF /\ inflight.calls[1].table = "teams"
       /\ Trim(inflight.calls[1].name) = Trim(inflight.calls[2].name)
      THEN /\ Cardinality(RowsOfName) = 1
           /\ inflight.calls[inflight.order[3][2]].id # NoId
           /\ inflight.calls[inflight.order[4][2]].id = NoId
    ELSE /\ Cardinality(RowsOfName) = 2
         /\ inflight.calls[1].id # NoId /\ inflight.calls[2].id # NoId
         /\ inflight.calls[1].id # inflight.calls[2].id

\* two invocations ensured the player "a" and both selects came first: two
\* players rows carry the name
C20_TwoPlayersOneName ==
  /\ Overlapped
  /\ inflight.calls[1].table = "players"
  /\ inflight.calls[1].name = NameA /\ inflight.calls[2].name = NameA
  /\ Len(db.players) = 2
  /\ db.players[1].ign = NameA /\ db.players[2].ign = NameA

\* C21: every request the handler has received is eventually answered,
\* whatever the mode and whatever the feeds and pages answer.
C21_EveryRequestAnswered ==
  (inflight.pc = "received") ~> (inflight.pc = "answered")

\* a full run that slept between retries and made every call, the scrapes
\* included, was answered 200
C21_FullRunAnsweredAfterRetries ==
  /\ inflight.pc = "answered"
  /\ modeOf(inflight.req.body) = "full"
  /\ inflight.slept
  /\ inflight.queue = <<>>
  /\ Len(ledger) > 13
  /\ inflight.status = 200

\* a text that is a number from its first to its last character: an
\* optional sign, digits and an optional fraction
IsNumber(s) ==
  LET body == IF s # <<>> /\ s[1] \in {"-", "+"} THEN Tail(s) ELSE s
      ip == DigitRun(body)
      rest == SubSeq(body, Len(ip) + 1, Len(body))
      fp == IF rest # <<>> /\ rest[1] = "." THEN DigitRun(Tail(rest)) ELSE <<>>
  IN /\ ip # <<>> \/ fp # <<>>
     /\ rest = <<>> \/ (rest[1] = "." /\ Len(rest) = 1 + Len(fp))

\* the text after the commas and percent signs are removed
Cleaned(v) == Trim(Remove(v, {",", "%"}))

\* C22: parseNum gives the missing value for an empty text, a lone dash
\* and a text that is not a number once commas and percent signs are
\* removed, and the number otherwise.
C22_ParseNumReadsNumbersOnly ==
  run.op = "parseNum" =>
    IF run.arg = <<>> \/ run.arg = <<"-">> \/ ~IsNumber(Cleaned(run.arg))
      THEN run.ret = Null
    ELSE run.ret = parseFloat(Cleaned(run.arg))

\* the text "1x", which is not a number, was read as 1
C22_LeadingDigitsRead ==
  /\ run.op = "parseNum"
  /\ run.arg = <<"1", "x">>
  /\ ~IsNumber(Cleaned(run.arg))
  /\ run.ret = <<1 * Scale>>

\* C23: the identity an ensure operation returned is that of a row whose
\* name equals the trimmed supplied name ignoring letter case; the name is
\* never used as a pattern.
C23_ReturnedRowBearsTheName ==
  \A x \in hist.calls : LowerStr(db[x[1]][x[3]][NameField(x[1])]) = x[2]

\* ensureTeam("_") returned the identity of the team named a
C23_UnderscoreReturnedAnotherTeam ==
  \E x \in hist.calls :
    /\ x[1] = "teams"
    /\ x[2] = NameUnderscore
    /\ db.teams[x[3]].name = NameA

\* the stored players whose name equals the trimmed name ignoring case
PlayersNamed(ign) ==
  {i \in Rows("players") : LowerStr(db.players[i].ign) = LowerStr(Trim(ign))}

\* C24: ensurePlayer for the name of a stored player creates no row and
\* returns that player's identity; the player's current team becomes the
\* supplied team when it is not null and stays as it was when it is null.
C24_ExistingPlayerKept ==
  [][(run'.op = "ensurePlayer" /\ PlayersNamed(run'.arg[1]) # {}) =>
       /\ Len(db'.players) = Len(db.players)
       /\ run'.ret \in PlayersNamed(run'.arg[1])
       /\ db'.players[run'.ret].current_team_id =
            IF run'.arg[2] # NoId THEN run'.arg[2]
            ELSE db.players[run'.ret].current_team_id]_vars

\* ensurePlayer for a stored name with a backslash created a second row
C24_SecondRowForStoredName ==
  /\ run.op = "ensurePlayer"
  /\ run.arg[1] = NameBackslash
  /\ run.ret = 2
  /\ Len(db.players) = 2
  /\ db.players[1].ign = NameBackslash
  /\ db.players[2].ign = NameBackslash

\* a name without pattern characters
PlainName(n) ==
  Trim(n) # <<>> /\ \A k \in 1..Len(n) : n[k] \notin {"_", "%", "*", "\\"}

\* the organisation of the segment has no team after the run: the insert
\* inside ensureTeam failed
TeamInsertFailed(seg) ==
  /\ ~seg.isNull
  /\ PlainName(seg.org)
  /\ \A i \in Rows("teams") : LowerStr(db.teams[i].name) # LowerStr(Trim(seg.org))

\* no other segment of the feed names the player of segment k
OnlySegmentOfPlayer(segments, k) ==
  \A j \in 1..Len(segments) :
    (j # k /\ ~segments[j].isNull) =>
      ~ILike(Trim(segments[k].player), Trim(segments[j].player))

\* the measurement rows the run stored for a player name
StoredFor(ign) ==
  {u \in 1..Len(run.ups) :
     /\ run.ups[u][1] = "player_stats_aggregate"
     /\ LowerStr(db.players[run.ups[u][2].player_id].ign) = LowerStr(Trim(ign))}

\* C25: a stats run skips the segment whose ensure operation failed at its
\* insert, writing no measurement row for it, and goes on to the end.
C25_FailedEnsureSkipsRecord ==
  (run.op = "stats" /\ run.json.shape = "segments") =>
    /\ ~run.threw
    /\ Last(ledger).status = "success"
    /\ \A k \in 1..Len(run.json.segments) :
         (/\ TeamInsertFailed(run.json.segments[k])
          /\ OnlySegmentOfPlayer(run.json.segments, k))
           => StoredFor(run.json.segments[k].player) = {}

\* the insert of team a failed and the measurement of its player b was
\* stored, the player having no team
C25_MeasurementStoredWithoutTeam ==
  /\ run.op = "stats"
  /\ run.rejected
  /\ TeamInsertFailed(run.json.segments[1])
  /\ run.json.segments[1].player = NameB
  /\ \E u \in StoredFor(NameB) :
       db.players[run.ups[u][2].player_id].current_team_id = NoId

FeedOps == {"stats", "matches", "events", "rankings"}

\* the document is absent or has no container field for the adapter: no
\* data.segments and, for rankings, no data array either
LacksContainer(op, json) ==
  IF op = "rankings" THEN json.shape \notin {"segments", "dataarray", "notarray"}
  ELSE json.shape \notin {"segments", "notarray"}

\* C26: an adapter whose feed document is absent or lacks its container
\* field returns 0, appends one ledger entry with status error and record
\* count 0, and writes nothing else.
C26_MissingContainerLogsError ==
  [][(run'.op \in FeedOps /\ LacksContainer(run'.op, run'.json)) =>
       /\ run'.ret = 0
       /\ ~run'.threw
       /\ Len(ledger') = Len(ledger) + 1
       /\ SubSeq(ledger', 1, Len(ledger)) = ledger
       /\ Last(ledger').status = "error"
       /\ Last(ledger').records_processed = 0
       /\ db' = db
       /\ run'.w = 0]_vars

\* after a run that stored teams, an events run whose document had no data
\* field logged an error and returned 0
C26_EventsWithoutDataLogged ==
  /\ run.op = "events"
  /\ run.json.shape = "nodata"
  /\ Len(db.teams) > 0
  /\ Len(ledger) = 2
  /\ Last(ledger).status = "error"
  /\ run.ret = 0

\* the segments of a results feed whose match is stored already
KnownSegments(segments, matches) ==
  {k \in 1..Len(segments) :
     /\ ~segments[k].isNull
     /\ extractVlrId(segments[k].match_page) # Null
     /\ \E m \in 1..Len(matches) :
          matches[m].vlr_id = extractVlrId(segments[k].match_page)}

\* the segments without a numeric identifier at the head of the path
UnidentifiedSegments(segments) ==
  {k \in 1..Len(segments) :
     ~segments[k].isNull /\ extractVlrId(segments[k].match_page) = Null}

\* C27: when every segment of the results feed is of a match stored
\* already or carries no numeric identifier (or is null), ingestMatches
\* counts the former, writes nothing and calls no ensure operation.
C27_KnownMatchesCountedUntouched ==
  [][(/\ run'.op = "matches"
      /\ run'.json.shape = "segments"
      /\ \A k \in 1..Len(run'.json.segments) :
           \/ run'.json.segments[k].isNull
           \/ k \in KnownSegments(run'.json.segments, db.matches)
           \/ k \in UnidentifiedSegments(run'.json.segments)) =>
       /\ run'.ret = Cardinality(KnownSegments(run'.json.segments, db.matches))
       /\ run'.w = 0
       /\ db' = db
       /\ hist'.calls = hist.calls
       /\ Last(ledger').records_processed = run'.ret]_vars

\* a second run on a feed with two segments of the stored match and one
\* without identifier counted two and wrote nothing
C27_SecondRunCountedTwo ==
  /\ run.n = 2
  /\ run.op = "matches"
  /\ run.json.segments = MatchFeedA
  /\ Cardinality(KnownSegments(MatchFeedA, db.matches)) = 2
  /\ UnidentifiedSegments(MatchFeedA) # {}
  /\ run.ret = 2
  /\ run.w = 0
  /\ Len(ledger) = 2
  /\ ledger[1].endpoint = ledger[2].endpoint

\* the scraped map a stored map row was made from, among the maps of a page
ScrapedMapOf(scraped, row) ==
  scraped.maps[CHOOSE k \in 1..Len(scraped.maps) :
                 scraped.maps[k].mapNumber = row.map_number]

\* the winner of a map by its round counts: none when a count is missing
\* or the counts are equal
WinnerByRounds(sMap, match) ==
  IF sMap.team1Rounds = Null \/ sMap.team2Rounds = Null THEN NoId
  ELSE IF sMap.team1Rounds[1] > sMap.team2Rounds[1] THEN match.team1_id
  ELSE IF sMap.team2Rounds[1] > sMap.team1Rounds[1] THEN match.team2_id
  ELSE NoId

\* C28: the winner reference of every map row a detail run stores is team
\* 1 when team 1 has more rounds, team 2 when team 2 has more, and null
\* when the counts are equal or one of them is missing.
C28_WinnerFollowsRoundCounts ==
  [][run'.op = "detail" =>
       \A m \in (Len(db.maps) + 1)..Len(db'.maps) :
         db'.maps[m].winner_team_id =
           WinnerByRounds(ScrapedMapOf(scrapeMatchPage(run'.res.body), db'.maps[m]),
                          db'.matches[db'.maps[m].match_id])]_vars

\* a map whose second round count is missing was stored with team 1 as
\* its winner
C28_WinnerWithoutSecondCount ==
  /\ run.op = "detail"
  /\ run.res.body = PageOneScore
  /\ \E m \in Rows("maps") :
       /\ db.maps[m].team1_rounds # Null
       /\ db.maps[m].team2_rounds = Null
       /\ db.maps[m].winner_team_id # NoId
       /\ db.maps[m].winner_team_id = db.matches[db.maps[m].match_id].team1_id

\* the place (from 1) of a player among the rows of the map on the page
RowOf(sMap, ign) ==
  CHOOSE k \in 1..Len(sMap.players) : sMap.players[k].playerIgn = ign

\* the team reference of the row at a place: team 1 for the first five
TeamByPlace(k, match) == IF k <= 5 THEN match.team1_id ELSE match.team2_id

\* C29: every stat row a detail run stores, and the current team of its
\* player, carry the match's team 1 reference for the first five rows of
\* the map and its team 2 reference for the later ones.
C29_TeamsByRowPlace ==
  [][run'.op = "detail" =>
       \A s \in (Len(db.player_map_stats) + 1)..Len(db'.player_map_stats) :
         LET stat == db'.player_map_stats[s]
             map == db'.maps[stat.map_id]
             sMap == ScrapedMapOf(scrapeMatchPage(run'.res.body), map)
             place == RowOf(sMap, db'.players[stat.player_id].ign)
             expected == TeamByPlace(place, db'.matches[map.match_id])
         IN /\ stat.team_id = expected
            /\ db'.players[stat.player_id].current_team_id = expected]_vars

\* on a page without team titles the sixth row of a match between two
\* teams was stored with the team 1 reference
C29_SixthRowOnTeamOne ==
  /\ run.op = "detail"
  /\ run.res.body = PageSixNoTitles
  /\ \E s \in Rows("player_map_stats") :
       LET stat == db.player_map_stats[s]
           match == db.matches[db.maps[stat.map_id].match_id]
       IN /\ db.players[stat.player_id].ign = PlayerName(6)
          /\ match.team1_id # match.team2_id
          /\ stat.team_id = match.team1_id
          /\ db.players[stat.player_id].current_team_id = match.team1_id

\* a scraped value that is present is stored rounded to a whole number
StoredRounded(stored, scraped) ==
  scraped # Null => stored = <<MathRound(scraped[1])>>

\* C30: in every stat row a detail run inserts, kills, deaths, assists,
\* first kills and first deaths hold the scraped value rounded to the
\* nearest whole number whenever that value is present, 0 included, and
\* rounds played holds the sum of the two round counts of the map.
C30_StatsStoredRounded ==
  [][run'.op = "detail" =>
       \A s \in (Len(db.player_map_stats) + 1)..Len(db'.player_map_stats) :
         LET stat == db'.player_map_stats[s]
             sMap == ScrapedMapOf(scrapeMatchPage(run'.res.body), db'.maps[stat.map_id])
             p == sMap.players[RowOf(sMap, db'.players[stat.player_id].ign)]
         IN /\ StoredRounded(stat.kills, p.kills)
            /\ StoredRounded(stat.deaths, p.deaths)
            /\ StoredRounded(stat.assists, p.assists)
            /\ StoredRounded(stat.first_kills, p.firstKills)
            /\ StoredRounded(stat.first_deaths, p.firstDeaths)
            /\ (sMap.team1Rounds # Null /\ sMap.team2Rounds # Null) =>
                 stat.rounds_played = <<sMap.team1Rounds[1] + sMap.team2Rounds[1]>>]_vars

\* a row whose first-kills cell reads 0 was stored without first kills,
\* its kills stored as 20 and its rounds played as 20
C30_ZeroFirstKillsStoredNull ==
  /\ run.op = "detail"
  /\ run.res.body = PageNoFirstKills
  /\ Scraped.maps[1].players[1].firstKills = <<0>>
  /\ \E s \in Rows("player_map_stats") :
       /\ db.players[db.player_map_stats[s].player_id].ign = PlayerName(3)
       /\ db.player_map_stats[s].first_kills = Null
       /\ db.player_map_stats[s].kills = <<20>>
       /\ db.player_map_stats[s].rounds_played = <<20>>

\* C31: the k-th in-section label names map identifier k whenever the
\* navigation items did not resolve k, and a name the navigation items
\* resolved stays.
C31_LabelsNameByPosition ==
  run.op = "names" =>
    /\ \A k \in 1..Len(run.arg[2]) :
         (Trim(run.arg[2][k]) # <<>> /\ ~HasName(run.arg[1], ToText(k))) =>
           /\ HasName(run.res, ToText(k))
           /\ NameOf(run.res, ToText(k)) = Trim(run.arg[2][k])
    /\ \A i \in 1..Len(run.arg[1]) :
         /\ HasName(run.res, run.arg[1][i].gameId)
         /\ NameOf(run.res, run.arg[1][i].gameId) = run.arg[1][i].label

\* the navigation resolved map 1 only; of the labels Haven and Split the
\* second did not name map 2, which stayed without a name
C31_SecondLabelLost ==
  /\ run.op = "names"
  /\ run.arg = <<NavOf({1}, 1), <<valid[2], valid[3]>>>>
  /\ ~HasName(run.res, ToText(2))
  /\ NameOf(run.res, ToText(1)) = valid[1]

\* the rows a table held before a step are the same after it
RowsKept(t) == SubSeq(db'[t], 1, Len(db[t])) = db[t]

\* C32: a detail run changes no stored Match, Map or PlayerMapStat row,
\* whatever the page it scrapes.
C32_DetailKeepsStoredRows ==
  [][run'.op = "detail" =>
       /\ RowsKept("matches")
       /\ RowsKept("maps")
       /\ RowsKept("player_map_stats")]_vars

\* match 1 was scraped again from a page whose map 1 has other round
\* counts than the stored map row, which kept its counts and its winner
C32_RescrapedWithOtherScores ==
  /\ run.n = 2
  /\ run.op = "detail"
  /\ run.res.body = PageTied
  /\ Last(ledger).status = "success"
  /\ Len(db.maps) = 1
  /\ db.maps[1].team1_rounds # Scraped.maps[1].team1Rounds
  /\ db.maps[1].winner_team_id # NoId
  /\ Len(db.player_map_stats) > 1

\* the reference tables, whose rows stand for real-world entities
EntityTables == {"teams", "players", "events", "agents"}

\* C33: every step keeps the ledger it found as a prefix of the ledger it
\* leaves, and leaves no entity table with fewer rows.
C33_HistoryOnlyGrows ==
  [][/\ Len(ledger') >= Len(ledger)
     /\ SubSeq(ledger', 1, Len(ledger)) = ledger
     /\ \A t \in EntityTables : Len(db'[t]) >= Len(db[t])]_vars

\* after two runs of one endpoint the ledger holds both entries, the first
\* as it was written, and the rows of the first run are still stored
C33_TwoRunsTwoEntries ==
  /\ run.n = MaxRuns
  /\ Len(ledger) = MaxRuns
  /\ ledger[1].endpoint = ledger[2].endpoint
  /\ ledger[1].status = "success"
  /\ ledger[2].status = "error"
  /\ \A t \in EntityTables \ {"events"} : Len(db[t]) > 0

\* the role of the roster that lists the name, duelist when none does
RosterRole(name) ==
  IF name \in duelists THEN "duelist"
  ELSE IF name \in initiators THEN "initiator"
  ELSE IF name \in controllers THEN "controller"
  ELSE IF name \in sentinels THEN "sentinel"
  ELSE "duelist"

\* C34: inferAgentRole returns the role of the roster that lists the
\* lowercased name, duelist for a name no roster lists, and always one of
\* the four roles.
C34_RoleByRosterMembership ==
  run.op = "inferAgentRole" =>
    /\ run.res = RosterRole(LowerStr(run.arg))
    /\ run.res \in {"duelist", "initiator", "controller", "sentinel"}

\* a name no roster lists was given the sentinel role
C34_UnlistedNameMadeSentinel ==
  /\ run.op = "inferAgentRole"
  /\ LowerStr(run.arg) \notin Rosters
  /\ run.res = "sentinel"

DateSeparator == <<" ", "-", " ">>

\* the year a text shows: four digits in a row, read as a number
YearsShown(dates) ==
  {DigitsValue(SubSeq(dates, i, i + 3)) :
     i \in {k \in 1..Len(dates) - 3 : \A d \in 0..3 : IsDigit(dates[k + d])}}

\* the text after the separator of a range is no date
EndFails(dates) ==
  /\ Len(Split(dates, DateSeparator)) = 2
  /\ Date(Trim(Split(dates, DateSeparator)[2])) = Null

\* the text before the separator of a range is no date, with or without the
\* year of the range
StartFails(dates) ==
  /\ Len(Split(dates, DateSeparator)) = 2
  /\ \A y \in {<<>>} \cup {<<",", " ">> \o ToText(n) : n \in YearsShown(dates)} :
       Date(Trim(Split(dates, DateSeparator)[1]) \o y) = Null

\* C35: parseDateRange raises nothing, returns a year the text shows or none
\* when it shows none, returns no start and no end when the text has no
\* separator or one of the two dates cannot be built, and returns a start
\* exactly when it returns an end.
C35_DateRangeAllOrNothing ==
  run.op = "parseDateRange" =>
    /\ ~run.res.threw
    /\ IF YearsShown(run.arg) = {} THEN run.res.year = Null
       ELSE run.res.year # Null /\ run.res.year[1] \in YearsShown(run.arg)
    /\ (~Includes(run.arg, DateSeparator) \/ StartFails(run.arg) \/ EndFails(run.arg))
         => (run.res.start = Null /\ run.res.end = Null)
    /\ run.res.start = Null <=> run.res.end = Null

\* the end of a range was a date, the start was not, and neither was returned
C35_EndDroppedWithFailedStart ==
  /\ run.op = "parseDateRange"
  /\ StartFails(run.arg)
  /\ ~EndFails(run.arg)
  /\ run.res.year # Null
  /\ run.res.start = Null
  /\ run.res.end = Null

\* the attempts of the invocation that met an error naming a client status
ClientErrorAttempts ==
  {k \in 1..run.res.attempts :
     run.arg[1][k].kind = "error" /\ IsClientError(run.arg[1][k].text)}

\* C36: an attempt that meets an error whose message contains 400 or 401 is
\* the last attempt, and the invocation fails with that error.
C36_ClientErrorNotRetried ==
  run.op = "invokeWithRetry" =>
    \A k \in ClientErrorAttempts :
      /\ k = run.res.attempts
      /\ run.res.threw
      /\ run.res.error = run.arg[1][k].text

\* the first attempt met a 400 error and a second attempt was made, which
\* returned data
C36_RetriedAfter400 ==
  /\ run.op = "invokeWithRetry"
  /\ 1 \in ClientErrorAttempts
  /\ run.res.attempts = 2
  /\ ~run.res.threw
  /\ run.res.waits = <<RETRY_DELAY_MS>>

\* the titles of the segments an events run visited
TitlesVisited ==
  {Trim(Segments(run.json)[1][v[1]].title) : v \in {run.visited[k] : k \in 1..Len(run.visited)}}

\* C37: the tier inferTier gives a title is one the events table accepts, so
\* an events run whose storage rejects nothing for another reason leaves
\* every title it visited with an identity and a stored row.
C37_InferredTierStored ==
  (run.op = "events" /\ ~run.threw /\ ~run.rejected) =>
    \A t \in TitlesVisited \ {<<>>} :
      /\ inferTier(t) \in EventTiers
      /\ \E id \in 1..Len(db.events) :
           /\ <<"events", LowerStr(t), id>> \in hist.calls
           /\ db.events[id].tier = inferTier(t)

\* an events run visited a title of each kind, no insert was rejected by the
\* storage at will, and the events table is empty
C37_NoEventOfAnyTierStored ==
  /\ run.op = "events"
  /\ run.n = 2
  /\ ~run.rejected
  /\ {inferTier(t) : t \in TitlesVisited} = {"masters", "regular"}
  /\ run.dup = 2
  /\ db.events = <<>>
  /\ hist.calls = {}

\* the segments an events run visited whose event is stored under its title
SegmentsStored ==
  {v[1] : v \in {w \in {run.visited[k] : k \in 1..Len(run.visited)} :
                   \E id \in 1..Len(db.events) :
                     LowerStr(db.events[id].name)
                       = LowerStr(Trim(Segments(run.json)[1][w[1]].title))}}

\* C38: the count an events run returns and logs is the number of segments
\* whose event is in storage after the run.
C38_CountIsEventsStored ==
  (run.op = "events" /\ ~run.threw /\ Last(ledger).status = "success") =>
    /\ run.ret = Cardinality(SegmentsStored)
    /\ Last(ledger).records_processed = Cardinality(SegmentsStored)

\* an events run whose only segment has a blank title returned and logged 1
C38_BlankTitleCounted ==
  /\ run.op = "events"
  /\ Len(Segments(run.json)[1]) = 1
  /\ Trim(Segments(run.json)[1][1].title) = <<>>
  /\ run.ret = 1
  /\ Last(ledger).records_processed = 1
  /\ db.events = <<>>

\* the five leading fields of the scraped row, in the order of the mapping
LeadingFields ==
  <<run.res.rating, run.res.acs, run.res.kills, run.res.deaths, run.res.assists>>

\* C39: the fields rating, combat score, kills, deaths and assists that got
\* a value got it from different cells.  Every numeric cell of a row holds
\* the number of its own index, so two fields took one cell exactly when
\* they hold one value.
C39_LeadingFieldsFromDistinctCells ==
  run.op = "scrape" =>
    \A i, j \in 1..5 :
      (i < j /\ LeadingFields[i] # Null /\ LeadingFields[j] # Null)
        => LeadingFields[i] # LeadingFields[j]

\* a row of one captured cell: the rating and the combat score both hold it
C39_OneCellTwoFields ==
  /\ run.op = "scrape"
  /\ Len(run.arg) = 1
  /\ CellValue(0) # Null
  /\ run.res.rating = CellValue(0)
  /\ run.res.acs = CellValue(0)
  /\ run.res.kills = Null

\* the page of the match is served and has a map section
PageScrapes(m) ==
  /\ db.matches[m].vlr_id \in DOMAIN inflight.world.pages
  /\ inflight.world.pages[db.matches[m].vlr_id].kind = "ok"
  /\ inflight.world.pages[db.matches[m].vlr_id].body.blocks # <<>>

HasMapRow(m) == \E k \in 1..Len(db.maps) : db.maps[k].match_id = m

\* the last request of the run, a batch request that follows MaxBatch - 2
\* batch requests of the same limit, has arrived
LastBatchReceived ==
  /\ inflight.pc = "received"
  /\ run.n = MaxBatch - 1
  /\ inflight.req.body.mode = "batch-detail"

====
